---- MODULE Spec2Model ----
(***************************************************************************)
(* Catalog bulk ingestion of sitefortlar/Backend: the job registry         *)
(* (JobService), the background worker of product_router.py, the retrying  *)
(* image download of DriveService and the ingestion run of                 *)
(* CreateProductUseCase.                                                   *)
(***************************************************************************)
EXTENDS Integers, Sequences, FiniteSets, Bags, TLC

\* ------------------------------------------------------------------ bounds
MaxJobs == 2
MaxTime == 2
MaxAttemptsBound == 6
MaxRows == 2
MaxLinks == 2
HoursPerTick == 48

\* cleanup_old_jobs(self, max_age_hours: int = 24)
MaxAgeHours == 24

JobIds == 1..MaxJobs

\* Python's None and a present value, for the optional fields of the code.
None == <<>>
Some(x) == <<x>>
IsNone(o) == o = <<>>
Val(o) == o[1]

VARIABLES
    jobs,      \* JobService._jobs: job id -> job dict
    lock,      \* JobService._lock: 0 when free, else the worker holding it
    now,       \* the clock read by datetime.now()
    wpc,       \* position of the background task of each job
    pend,      \* the update_job_status call a worker is inside
    wexc,      \* the exception a worker is handling or propagating
    wres,      \* the value use_case.execute returned to a worker
    cpc,       \* position of the polling request (get_job_status)
    cref,      \* the job whose dict the polling request holds
    cobs,      \* the body the polling request rendered
    fetch,     \* the download_image_with_meta call in progress
    file,      \* the uploaded spreadsheet
    db,        \* the committed tables produtos and imagens_produto
    tx,        \* the tables as each worker's session sees them
    active,    \* Session.is_active of each worker's session
    disk,      \* assets/produtos: file name -> the download it holds
    run,       \* the locals of the CreateProductUseCase.execute call in progress
    hist,      \* what the run in progress has done so far
    up,        \* the locals of the UploadPlanilhaUseCase.execute call in progress
    bucket,    \* the storage bucket: object path -> the download it holds
    race,      \* the locals of each of two execute calls running side by side
    cellrun,   \* the call of a function of the loader or of DriveService in progress
    single,    \* the class JobService and the threads constructing it
    sweep,     \* the call of cleanup_old_jobs in progress
    clean      \* the clean_before argument of each background task

jobVars == <<jobs, lock, now, wpc, pend, wexc, wres>>
clientVars == <<cpc, cref, cobs>>
storeVars == <<db, tx, active, disk>>
runVars == <<fetch, file, run, hist>>
auxVars == <<cellrun, single, sweep, clean>>
extVars == <<up, bucket, race, auxVars>>
vars == <<jobs, lock, now, wpc, pend, wexc, wres, cpc, cref, cobs,
          fetch, file, db, tx, active, disk, run, hist, up, bucket, race, cellrun, single, sweep, clean>>

\* ------------------------------------------------------------------ catalog
\* The tables: produtos by codigo (unique), and imagens_produto as the bag of
\* its rows <<codigo of the product, url>>.
EmptyCatalog == [products |-> <<>>, images |-> EmptyBag]

\* ------------------------------------------------------------ job registry
PENDING == "pending"
PROCESSING == "processing"
COMPLETED == "completed"
FAILED == "failed"

\* The dict create_job stores.
NewJob(j, t) ==
    [id |-> j, status |-> PENDING, created_at |-> Some(t), started_at |-> None,
     completed_at |-> None, progress |-> 0, result |-> None, error |-> None,
     summary |-> None]

\* The summary dict execute starts from.
EmptySummary ==
    [categorias_created |-> 0, subcategorias_created |-> 0, produtos_created |-> 0,
     produtos_updated |-> 0, imagens_created |-> 0, errors |-> <<>>]

\* The dict execute returns.
ExecuteResult(summary) == [success |-> TRUE, summary |-> summary]

NoPend == [status |-> PENDING, kw |-> <<>>, next |-> "idle"]

\* create_job under the lock, then background_tasks.add_task.
Submit(j) ==
    /\ wpc[j] = "idle"
    /\ j \notin DOMAIN jobs
    /\ \A k \in JobIds : k < j => k \in DOMAIN jobs
    /\ lock = 0
    /\ jobs' = jobs @@ (j :> NewJob(j, now))
    /\ wpc' = [wpc EXCEPT ![j] = "queued"]
    /\ UNCHANGED <<lock, now, pend, wexc, wres, clientVars, storeVars, runVars, extVars>>

\* A worker calls update_job_status(job_id, status, **kw) and continues at next.
CallUpdate(j, status, kw, next) ==
    /\ pend' = [pend EXCEPT ![j] = [status |-> status, kw |-> kw, next |-> next]]
    /\ wpc' = [wpc EXCEPT ![j] = "upd"]

\* update_job_status: takes the lock and stores the status, or finds no job.
UpdEnter(j) ==
    /\ wpc[j] = "upd"
    /\ lock = 0
    /\ IF j \in DOMAIN jobs
       THEN /\ jobs' = [jobs EXCEPT ![j].status = pend[j].status]
            /\ lock' = j
            /\ wpc' = [wpc EXCEPT ![j] = "upd_time"]
       ELSE /\ wpc' = [wpc EXCEPT ![j] = pend[j].next]
            /\ UNCHANGED <<jobs, lock>>
    /\ UNCHANGED <<now, pend, wexc, wres, clientVars, storeVars, runVars, extVars>>

\* update_job_status: started_at on the first PROCESSING, completed_at on a
\* terminal status.
UpdTime(j) ==
    /\ wpc[j] = "upd_time"
    /\ jobs' = IF pend[j].status = PROCESSING /\ IsNone(jobs[j].started_at)
               THEN [jobs EXCEPT ![j].started_at = Some(now)]
               ELSE IF pend[j].status \in {COMPLETED, FAILED}
                    THEN [jobs EXCEPT ![j].completed_at = Some(now)]
                    ELSE jobs
    /\ wpc' = [wpc EXCEPT ![j] = "upd_kw"]
    /\ UNCHANGED <<lock, now, pend, wexc, wres, clientVars, storeVars, runVars, extVars>>

\* One key of **kwargs stored into the job dict.
SetField(job, key, value) ==
    CASE key = "progress" -> [job EXCEPT !.progress = value]
      [] key = "result" -> [job EXCEPT !.result = value]
      [] key = "error" -> [job EXCEPT !.error = value]
      [] key = "summary" -> [job EXCEPT !.summary = value]
      [] OTHER -> job

\* update_job_status: the loop over kwargs, one key a step; the lock is
\* released when the loop ends.
UpdKwarg(j) ==
    /\ wpc[j] = "upd_kw"
    /\ IF pend[j].kw = <<>>
       THEN /\ lock' = 0
            /\ wpc' = [wpc EXCEPT ![j] = pend[j].next]
            /\ UNCHANGED <<jobs, pend>>
       ELSE /\ jobs' = [jobs EXCEPT ![j] =
                           SetField(@, Head(pend[j].kw)[1], Head(pend[j].kw)[2])]
            /\ pend' = [pend EXCEPT ![j].kw = Tail(@)]
            /\ UNCHANGED <<lock, wpc>>
    /\ UNCHANGED <<now, wexc, wres, clientVars, storeVars, runVars, extVars>>

\* ------------------------------------------------------- background worker
\* _process_product_upload_async: the first call, before the try.
WorkerStart(j) ==
    /\ wpc[j] = "queued"
    /\ CallUpdate(j, PROCESSING, <<<<"progress", 0>>>>, "session")
    /\ UNCHANGED <<jobs, lock, now, wexc, wres, clientVars, storeVars, runVars, extVars>>

\* db_session = Session(): a session of its own, on the committed tables;
\* then the request dict.
WorkerSession(j) ==
    /\ wpc[j] = "session"
    /\ tx' = [tx EXCEPT ![j] = db]
    /\ active' = [active EXCEPT ![j] = TRUE]
    /\ wpc' = [wpc EXCEPT ![j] = "execute"]
    /\ UNCHANGED <<jobs, lock, now, pend, wexc, wres, clientVars, db, disk, runVars, extVars>>

\* use_case.execute seen from the worker only: it returns the result dict or
\* raises.
ExecuteReturns(j) ==
    /\ wpc[j] = "execute"
    /\ wres' = [wres EXCEPT ![j] = Some(ExecuteResult(EmptySummary))]
    /\ wpc' = [wpc EXCEPT ![j] = "commit"]
    /\ UNCHANGED <<jobs, lock, now, pend, wexc, clientVars, storeVars, runVars, extVars>>

ExecuteRaises(j) ==
    /\ wpc[j] = "execute"
    /\ wexc' = [wexc EXCEPT ![j] = Some("execute_error")]
    /\ wpc' = [wpc EXCEPT ![j] = "except"]
    /\ UNCHANGED <<jobs, lock, now, pend, wres, clientVars, storeVars, runVars, extVars>>

\* What a commit of the session's tables t leaves in the committed tables d:
\* the product rows the session wrote or read, and those that other sessions
\* committed meanwhile; the image rows as the session has them (no two
\* sessions write image rows at a time in the runs followed here).
Committed(d, t) ==
    [products |-> t.products @@ d.products, images |-> t.images]

\* db_session.commit(). A session whose flush failed raises
\* PendingRollbackError; otherwise the commit stores the session's changes, or
\* the database refuses it, which leaves the session active or not.
WorkerCommit(j) ==
    /\ wpc[j] = "commit"
    /\ IF ~active[j]
       THEN /\ wexc' = [wexc EXCEPT ![j] = Some("PendingRollbackError")]
            /\ wpc' = [wpc EXCEPT ![j] = "except"]
            /\ UNCHANGED <<db, tx, active>>
       ELSE \/ /\ db' = Committed(db, tx[j])
               /\ wpc' = [wpc EXCEPT ![j] = "completed"]
               /\ UNCHANGED <<wexc, tx, active>>
            \/ /\ wexc' = [wexc EXCEPT ![j] = Some("commit_error")]
               /\ wpc' = [wpc EXCEPT ![j] = "except"]
               /\ \E a \in BOOLEAN : active' = [active EXCEPT ![j] = a]
               /\ UNCHANGED <<db, tx>>
    /\ UNCHANGED <<jobs, lock, now, pend, wres, clientVars, disk, runVars, extVars>>

\* update_job_status(COMPLETED, progress=100, result=result,
\* summary=result.get("summary", {})), still inside the inner try.
WorkerCompleted(j) ==
    /\ wpc[j] = "completed"
    /\ CallUpdate(j, COMPLETED,
                  <<<<"progress", 100>>, <<"result", wres[j]>>,
                    <<"summary", Some(Val(wres[j]).summary)>>>>,
                  "finally")
    /\ UNCHANGED <<jobs, lock, now, wexc, wres, clientVars, storeVars, runVars, extVars>>

\* The inner except: update_job_status(FAILED, error=str(e)).
WorkerExcept(j) ==
    /\ wpc[j] = "except"
    /\ CallUpdate(j, FAILED, <<<<"error", wexc[j]>>>>, "rollback")
    /\ UNCHANGED <<jobs, lock, now, wexc, wres, clientVars, storeVars, runVars, extVars>>

\* Still in the inner except: db_session.rollback() when the session is
\* active; the call returns or raises, and a raise leaves through finally.
WorkerRollback(j) ==
    /\ wpc[j] = "rollback"
    /\ IF active[j]
       THEN \/ /\ tx' = [tx EXCEPT ![j] = db]
               /\ wexc' = [wexc EXCEPT ![j] = None]
            \/ /\ wexc' = [wexc EXCEPT ![j] = Some("rollback_error")]
               /\ UNCHANGED tx
       ELSE /\ wexc' = [wexc EXCEPT ![j] = None]
            /\ UNCHANGED tx
    /\ wpc' = [wpc EXCEPT ![j] = "finally"]
    /\ UNCHANGED <<jobs, lock, now, pend, wres, clientVars, db, active, disk, runVars, extVars>>

\* The finally block: db_session.close() returns, dropping what was not
\* committed, or raises; the temporary file is removed (its own errors are
\* caught). An exception raised here or left pending by the except block
\* reaches the outer except.
WorkerFinally(j) ==
    /\ wpc[j] = "finally"
    /\ \/ /\ wpc' = [wpc EXCEPT ![j] = IF IsNone(wexc[j]) THEN "done" ELSE "critical"]
          /\ tx' = [tx EXCEPT ![j] = EmptyCatalog]
          /\ active' = [active EXCEPT ![j] = TRUE]
          /\ UNCHANGED wexc
       \/ /\ wexc' = [wexc EXCEPT ![j] = Some("close_error")]
          /\ wpc' = [wpc EXCEPT ![j] = "critical"]
          /\ UNCHANGED <<tx, active>>
    /\ UNCHANGED <<jobs, lock, now, pend, wres, clientVars, db, disk, runVars, extVars>>

\* The outer except: update_job_status(FAILED, error="Erro crítico: ...").
WorkerCritical(j) ==
    /\ wpc[j] = "critical"
    /\ CallUpdate(j, FAILED, <<<<"error", Some("Erro critico: " \o Val(wexc[j]))>>>>, "done")
    /\ UNCHANGED <<jobs, lock, now, wexc, wres, clientVars, storeVars, runVars, extVars>>

\* ------------------------------------------------------------ polling client
\* A test that takes every finished job for an old one.
ExpiredWhenDone(job, t) == ~IsNone(job.completed_at)

\* cleanup_old_jobs: under the lock, the jobs whose completed_at is set and
\* lies before now - max_age_hours are deleted.
Expired(job, t) ==
    /\ ~IsNone(job.completed_at)
    /\ Val(job.completed_at) * HoursPerTick < t * HoursPerTick - MaxAgeHours

cleanup_old_jobs(js, t) ==
    [j \in {k \in DOMAIN js : ~Expired(js[k], t)} |-> js[j]]

SweepIdle == [pc |-> "idle", at |-> 0, removed |-> {}]

\* cleanup_old_jobs is entered: cutoff_time = datetime.now() - max_age_hours,
\* before the lock is asked for.
CleanupCall ==
    /\ sweep.pc = "idle"
    /\ sweep' = [pc |-> "wait", at |-> now, removed |-> {}]
    /\ UNCHANGED <<jobVars, clientVars, storeVars, runVars, up, bucket, race, cellrun, single, clean>>

\* The with block: jobs_to_remove is collected and deleted, and the lock is
\* released.
CleanupLocked ==
    /\ sweep.pc = "wait"
    /\ lock = 0
    /\ jobs' = cleanup_old_jobs(jobs, sweep.at)
    /\ sweep' = [pc |-> "idle", at |-> sweep.at, removed |-> DOMAIN jobs \ DOMAIN jobs']
    /\ UNCHANGED <<lock, now, wpc, pend, wexc, wres, clientVars, storeVars, runVars,
                   up, bucket, race, cellrun, single, clean>>

\* A get_job that sweeps before it looks the job up.
ClientGetJobSweeping(j) ==
    /\ cpc = "idle"
    /\ lock = 0
    /\ jobs' = cleanup_old_jobs(jobs, now)
    /\ IF j \in DOMAIN jobs'
       THEN cpc' = "ref" /\ cref' = j
       ELSE cpc' = "notfound" /\ UNCHANGED cref
    /\ UNCHANGED <<cobs, lock, now, wpc, pend, wexc, wres, storeVars, runVars, extVars>>

\* get_job_status: job_service.get_job(job_id) returns the registry's own dict
\* under the lock, or None, which is answered 404.
ClientGetJob(j) ==
    /\ cpc = "idle"
    /\ lock = 0
    /\ IF j \in DOMAIN jobs
       THEN cpc' = "ref" /\ cref' = j
       ELSE cpc' = "notfound" /\ UNCHANGED cref
    /\ UNCHANGED <<cobs, jobVars, storeVars, runVars, extVars>>

\* JSONResponse(content=job): the dict is read when the response is rendered,
\* after get_job released the lock.
ClientRender ==
    /\ cpc = "ref"
    /\ cobs' = Some(jobs[cref])
    /\ cpc' = "shown"
    /\ UNCHANGED <<cref, jobVars, storeVars, runVars, extVars>>

\* The response is sent; the request ends.
ClientDone ==
    /\ cpc \in {"shown", "notfound"}
    /\ cpc' = "idle"
    /\ cref' = 0
    /\ cobs' = None
    /\ UNCHANGED <<jobVars, storeVars, runVars, extVars>>

\* Time passes.
Tick ==
    /\ now < MaxTime
    /\ now' = now + 1
    /\ UNCHANGED <<jobs, lock, wpc, pend, wexc, wres, clientVars, storeVars, runVars, extVars>>

\* ------------------------------------------------------------- image links
\* A raw link of the image column, by the shape the tests and regular
\* expressions of the code tell apart, and the Drive file id it carries
\* (0: none).
\*   view     https://drive.google.com/file/d/ID/view
\*   edit     https://drive.google.com/file/d/ID/edit
\*   open     https://drive.google.com/open?id=ID
\*   uc       https://drive.google.com/uc?id=ID
\*   export   https://drive.google.com/uc?export=download&id=ID
\*   supabase a public storage URL (contains "supabase")
\*   assets   a storage URL whose path contains /api/assets/
\*   other    an http(s) URL of no known shape
\*   text     a non-blank text that does not start with http:// or https://
\*   blank    a text that is empty once stripped
Link(shape, id) == [shape |-> shape, id |-> id]

\* The text of a link, cut where the regular expressions and substring tests
\* of the code look: host, path, the marker before an id, the id. An id of 0
\* is an empty text.
LinkIds == 0..2
IdText(id) == IF id = 0 THEN "" ELSE ToString(id)
IdTexts == {IdText(n) : n \in LinkIds \ {0}}
IdOfText(t) == CHOOSE n \in LinkIds : IdText(n) = t

DriveHost == "https://drive.google.com"
StorageHost == "https://x.supabase.co"

UrlText(url) ==
    CASE url.shape = "view" -> <<DriveHost, "/file/d/", IdText(url.id), "/view?usp=sharing">>
      [] url.shape = "edit" -> <<DriveHost, "/file/d/", IdText(url.id), "/edit">>
      [] url.shape = "open" -> <<DriveHost, "/open", "?id=", IdText(url.id)>>
      [] url.shape = "uc" -> <<DriveHost, "/uc", "?id=", IdText(url.id)>>
      [] url.shape = "export" -> <<DriveHost, "/uc?export=download", "&id=", IdText(url.id)>>
      [] url.shape = "mixed" ->
            <<DriveHost, "/open", "?id=", IdText(3 - url.id), "&next=", "/file/d/", IdText(url.id)>>
      [] url.shape = "supabase" ->
            <<StorageHost, "/storage/v1/object/public/", "produtos/", IdText(url.id), ".jpg">>
      [] url.shape = "assets" -> <<StorageHost, "/api/assets/", "produtos/", IdText(url.id), ".jpg">>
      [] url.shape = "other" -> <<"https://example.com", "/img/", IdText(url.id)>>
      [] url.shape = "text" -> <<"img", IdText(url.id)>>
      [] OTHER -> <<" ">>

\* The text as one string.
RECURSIVE Join(_)
Join(t) == IF t = <<>> THEN "" ELSE Head(t) \o Join(Tail(t))

\* 'x' in url, for a text x the cut keeps whole.
Contains(t, parts) ==
    \E n \in 1..Len(t) :
       n + Len(parts) - 1 <= Len(t) /\ SubSeq(t, n, n + Len(parts) - 1) = parts

\* re.search(literal + '([a-zA-Z0-9_-]+)', url): the id after the leftmost
\* place where one of the literals is followed by a non-empty id, or None.
re_search(t, literals) ==
    LET hits == {n \in 1..Len(t) :
                   \E l \in literals :
                      /\ n + Len(l) <= Len(t)
                      /\ SubSeq(t, n, n + Len(l) - 1) = l
                      /\ t[n + Len(l)] \in IdTexts}
        first == CHOOSE n \in hits : \A m \in hits : n <= m
        lit == CHOOSE l \in literals :
                  /\ first + Len(l) <= Len(t)
                  /\ SubSeq(t, first, first + Len(l) - 1) = l
                  /\ t[first + Len(l)] \in IdTexts
    IN  IF hits = {} THEN None ELSE Some(t[first + Len(lit)])

FileDPattern == {<<"/file/d/">>}
IdParamPattern == {<<"?id=">>, <<"&id=">>}
ExportPattern == {<<"/uc?export=download", "&id=">>}

\* extract_drive_file_id: /file/d/ID, then [?&]id=ID, then
\* uc?export=download&id=ID; None for an empty url or no match.
extract_drive_file_id(url) ==
    LET t == UrlText(url)
        m1 == re_search(t, FileDPattern)
        m2 == re_search(t, IdParamPattern)
        m3 == re_search(t, ExportPattern)
    IN  IF ~IsNone(m1) THEN m1
        ELSE IF ~IsNone(m2) THEN m2
        ELSE m3

\* A conversion that tries [?&]id=ID before /file/d/ID.
convert_drive_link_param_first(url) ==
    LET t == UrlText(url)
        m1 == re_search(t, FileDPattern)
        m2 == re_search(t, IdParamPattern)
    IN  IF Contains(t, <<StorageHost>>) THEN Some(url)
        ELSE IF ~IsNone(m2) THEN Some(Link("export", IdOfText(Val(m2))))
        ELSE IF ~IsNone(m1) THEN Some(Link("export", IdOfText(Val(m1))))
        ELSE IF Contains(t, <<"/uc?export=download", "&id=">>) THEN Some(url)
        ELSE None

\* convert_drive_link: a url with 'supabase' in it as it is; the direct
\* download url of the id found by /file/d/ID or [?&]id=ID; a url with
\* 'uc?export=download&id=' in it as it is; None otherwise.
convert_drive_link(url) ==
    LET t == UrlText(url)
        m1 == re_search(t, FileDPattern)
        m2 == re_search(t, IdParamPattern)
    IN  IF Contains(t, <<StorageHost>>) THEN Some(url)
        ELSE IF ~IsNone(m1) THEN Some(Link("export", IdOfText(Val(m1))))
        ELSE IF ~IsNone(m2) THEN Some(Link("export", IdOfText(Val(m2))))
        ELSE IF Contains(t, <<"/uc?export=download", "&id=">>) THEN Some(url)
        ELSE None

\* ------------------------------------------------- download_image_with_meta
DefaultMaxAttempts == 4
BackoffCap == 10

RetryableStatus == {429, 500, 502, 503, 504}
HttpErrorStatus == {403, 404} \cup RetryableStatus

\* What one requests.get and the reading of its body can end in.
HttpError(code) == [kind |-> "http_error", status |-> code]
Outcome(kind) == [kind |-> kind, status |-> 0]
Outcomes ==
    {HttpError(c) : c \in HttpErrorStatus} \cup
    {Outcome(k) : k \in {"ok", "not_image", "too_large", "timeout",
                         "connection_error", "request_error", "unexpected_error"}}

\* A reading of the except clauses that retries every HTTPError.
RetryableAnyStatus(o) == o.kind \in {"http_error", "timeout", "connection_error"}

\* The except clauses that retry: HTTPError with a retryable status, Timeout,
\* ConnectionError.
Retryable(o) ==
    \/ o.kind = "http_error" /\ o.status \in RetryableStatus
    \/ o.kind \in {"timeout", "connection_error"}

Min(a, b) == IF a < b THEN a ELSE b

\* A backoff without the cap.
BackoffUncapped(k) == 2 ^ (k - 1)

\* backoff = min(2 ** (attempt - 1), 10)
Backoff(k) == Min(2 ^ (k - 1), BackoffCap)

NoOutcome == Outcome("none")

FetchIdle ==
    [pc |-> "idle", url |-> Link("none", 0), attempt |-> 0, max |-> 0, requests |-> 0,
     sleeps |-> <<>>, last |-> NoOutcome, allRetryable |-> TRUE, res |-> None]

\* The call download_image_with_meta(url, max_attempts=m): attempt = 1.
FetchBegin(url, m) ==
    [FetchIdle EXCEPT !.pc = "request", !.url = url, !.attempt = 1, !.max = m]

\* One pass of the for loop: the request and what its outcome leads to. The
\* loop ends without a request when range(1, max_attempts + 1) is exhausted.
FetchStep(f, o) ==
    IF f.attempt > f.max
    THEN [f EXCEPT !.pc = "done", !.res = None]
    ELSE LET g == [f EXCEPT !.requests = @ + 1, !.last = o,
                            !.allRetryable = @ /\ Retryable(o)]
         IN  IF o.kind = "ok"
             THEN [g EXCEPT !.pc = "done", !.res = Some(f.url)]
             ELSE IF Retryable(o) /\ f.attempt < f.max
                  THEN [g EXCEPT !.pc = "sleep"]
                  ELSE [g EXCEPT !.pc = "done", !.res = None]

\* The pair download_image_with_meta returns: (image_bytes, content_type) of
\* the download, or (None, None).
Returned(f) ==
    IF IsNone(f.res) THEN <<None, None>> ELSE <<f.res, Some("image/jpeg")>>

FetchRequest ==
    /\ fetch.pc = "request"
    /\ \E o \in Outcomes : fetch' = FetchStep(fetch, o)
    /\ UNCHANGED <<jobVars, clientVars, storeVars, file, run, hist, extVars>>

\* A sleep after which the attempt just made does not count.
FetchSleepSameAttempt ==
    /\ fetch.pc = "sleep"
    /\ fetch' = [fetch EXCEPT !.pc = "request", !.requests = @ - 1]
    /\ UNCHANGED <<jobVars, clientVars, storeVars, file, run, hist, extVars>>

\* time.sleep(backoff), then continue with the next attempt.
FetchSleep ==
    /\ fetch.pc = "sleep"
    /\ fetch' = [fetch EXCEPT !.sleeps = Append(@, Backoff(fetch.attempt)),
                              !.attempt = @ + 1, !.pc = "request"]
    /\ UNCHANGED <<jobVars, clientVars, storeVars, file, run, hist, extVars>>

\* A caller starts a download with some max_attempts.
FetchCall ==
    /\ fetch.pc = "idle"
    /\ \E m \in 0..MaxAttemptsBound : fetch' = FetchBegin(Link("export", 1), m)
    /\ UNCHANGED <<jobVars, clientVars, storeVars, file, run, hist, extVars>>

\* The caller takes the returned pair.
FetchReturn ==
    /\ fetch.pc = "done"
    /\ fetch' = FetchIdle
    /\ UNCHANGED <<jobVars, clientVars, storeVars, file, run, hist, extVars>>

\* ------------------------------------------------- UploadPlanilhaUseCase keys
\* hashlib.sha1(base).hexdigest(): one digest per text, told apart by the text.
Sha1(text) == "sha1(" \o text \o ")"

\* A key taken from the text of the raw link alone.
ImageKeyOfRaw(original_url, download_url) ==
    "url_" \o Sha1(Join(UrlText(original_url)))

\* _image_key: drive_<id> when the raw link or the download url carries a
\* Drive file id, url_<sha1 of the download url> otherwise.
_image_key(original_url, download_url) ==
    LET a == extract_drive_file_id(original_url)
        b == extract_drive_file_id(download_url)
        file_id == IF ~IsNone(a) THEN a ELSE b
    IN  IF ~IsNone(file_id) THEN "drive_" \o Val(file_id)
        ELSE "url_" \o Sha1(Join(UrlText(download_url)))

\* _shared_object_path
_shared_object_path(key) == "produtos/shared/" \o key \o ".jpg"

\* Links of the shapes told apart.
E1 == Link("edit", 1)
O1 == Link("open", 1)
U1 == Link("uc", 1)
D1 == Link("export", 1)
D0 == Link("export", 0)
S1 == Link("supabase", 1)
M1 == Link("mixed", 1)

\* ------------------------------------------------------- tables and folder
\* Rows of categorias, and of subcategorias with the category each belongs to.
Categories == {1}
Subcategories == (1 :> 1)

\* codigo = mapped_column(String(50), unique=True, nullable=False)
MaxCodigoLen == 50

\* get_by_produto: the urls of the rows of one product.
ImagesOf(cat, produto) ==
    {e[2] : e \in {x \in BagToSet(cat.images) : x[1] = produto}}

\* get_by_url: the products whose rows carry the url; .first() gives one of
\* the rows, in no stated order.
OwnersOf(cat, url) ==
    {e[1] : e \in {x \in BagToSet(cat.images) : x[2] = url}}

\* product_image_repository.create: one more row.
AddImage(cat, produto, url) ==
    [cat EXCEPT !.images = @ (+) SetToBag({<<produto, url>>})]

\* product_image_repository.delete for each row of the product with one of
\* the urls.
DeleteImages(cat, produto, urls) ==
    [cat EXCEPT !.images =
        [e \in {x \in DOMAIN @ : ~(x[1] = produto /\ x[2] \in urls)} |-> @[e]]]

\* _get_file_name: "{codigo}.jpg" for a single image, "{codigo}_{index}.jpg"
\* otherwise.
FileName(codigo, index, total) ==
    IF total = 1 THEN codigo \o ".jpg"
    ELSE codigo \o "_" \o ToString(index) \o ".jpg"

\* public_url = f"{self.base_url}/produtos/{file_name}"
PublicUrl(name) == "/api/assets/produtos/" \o name

\* ------------------------------------------------------------ spreadsheet
\* One data row of the CSV layout: whether _extract_entities_csv can parse
\* it, its codigo cell (cell: "text" with the text in codigo, "nan" when the
\* cell is empty, "spaces" when it holds blanks only), its Nome as a list of
\* characters, id_categoria and id_subcategoria (0: empty), its price and the
\* links of its image column. descricao, Quantidade and Codigo Amarração are
\* compared and stored the way the price is.
Row(parse, codigo, cat, sub, val, urls) ==
    [parse |-> parse, cell |-> "text", codigo |-> codigo, nome |-> <<"x">>,
     id_categoria |-> cat, id_subcategoria |-> sub, valor_base |-> val,
     image_urls |-> urls]

\* A row of category 1 whose codigo cell is empty or blank.
BlankRow(cell, nome, val, urls) ==
    [Row(TRUE, "", 1, 0, val, urls) EXCEPT !.cell = cell, !.nome = nome]

OverlongCodigo == "AAAAAAAAAAAAAAAAAAAAAAAAAAAAAAAAAAAAAAAAAAAAAAAAAAA"

V1 == Link("view", 1)
V2 == Link("view", 2)
X0 == Link("other", 0)

LinkLists == {<<>>, <<V1>>, <<V2>>, <<V1, V1>>, <<V1, V2>>, <<X0, V1>>}

RowChoices ==
    {Row(TRUE, c, 1, 0, 1, l) : c \in {"A", "A_1"}, l \in LinkLists} \cup
    {Row(TRUE, "A", 1, 0, 2, <<>>),
     Row(FALSE, "A", 1, 0, 1, <<>>),
     Row(TRUE, "A", 0, 0, 1, <<V1>>),
     Row(TRUE, "A", 9, 0, 1, <<V1>>),
     Row(TRUE, "A", 1, 9, 1, <<V1>>),
     Row(TRUE, "A", 1, 1, 1, <<>>),
     Row(TRUE, OverlongCodigo, 1, 0, 1, <<>>)}

SeqsUpTo(S, n) == UNION {[1..m -> S] : m \in 0..n}

\* An uploaded file: one that cannot be read, one without the required
\* columns, or a readable one with its data rows.
RECURSIVE LinkCount(_)
LinkCount(rows) ==
    IF rows = <<>> THEN 0 ELSE Len(Head(rows).image_urls) + LinkCount(Tail(rows))

Files ==
    {[kind |-> k, rows |-> <<>>] : k \in {"unreadable", "missing_columns"}} \cup
    {[kind |-> "ok", rows |-> r] :
        r \in {s \in SeqsUpTo(RowChoices, MaxRows) : LinkCount(s) <= MaxLinks}}

\* Files with rows whose codigo cell is empty or blank, and with links that
\* are storage urls already.
A1 == Link("assets", 1)
Nome1 == <<"m", "e">>
Nome2 == <<"M", "e">>

MoreRowChoices ==
    {BlankRow(c, n, v, l) : c \in {"nan", "spaces"}, n \in {Nome1, Nome2},
                            v \in {1, 2}, l \in {<<>>, <<V1>>}} \cup
    {BlankRow("spaces", <<>>, 1, <<>>),
     Row(TRUE, "PROD-ME", 1, 0, 1, <<>>),
     Row(TRUE, "A", 1, 0, 1, <<V1>>),
     Row(TRUE, "A", 1, 0, 1, <<S1>>),
     Row(TRUE, "A", 1, 0, 1, <<A1>>),
     Row(TRUE, "A", 1, 0, 1, <<A1, S1>>)}

MoreFiles ==
    {[kind |-> "ok", rows |-> r] :
        r \in {s \in SeqsUpTo(MoreRowChoices, MaxRows) : LinkCount(s) <= MaxLinks}}

\* str(row.get('codigo', '') or '').strip(): pandas gives NaN for an empty
\* cell, NaN is true, and str(NaN) is 'nan'.
CellText(r) ==
    IF r.cell = "nan" THEN "nan" ELSE IF r.cell = "spaces" THEN "" ELSE r.codigo

\* nome[:20].upper().replace(' ', '-')
NameCut == 20
Upper(c) == CASE c = "m" -> "M" [] c = "e" -> "E" [] c = "x" -> "X" [] OTHER -> c
Dash(c) == IF c = " " THEN "-" ELSE c
BaseCode(nome) ==
    LET cut == SubSeq(nome, 1, Min(NameCut, Len(nome)))
    IN  "PROD-" \o Join([n \in 1..Len(cut) |-> Dash(Upper(cut[n]))])

\* The codigo of the produto dict: the text of the cell, or the one made from
\* the name when that text is empty.
LoaderCodigo(r) == IF CellText(r) = "" THEN BaseCode(r.nome) ELSE CellText(r)

\* _extract_entities_csv: the rows that parse, in order, each with its
\* codigo; a row without codigo and name is skipped, a row that raises is
\* logged and left out.
extract_entities(rows) ==
    LET kept == SelectSeq(rows, LAMBDA r : r.parse /\ ~(CellText(r) = "" /\ r.nome = <<>>))
    IN  [n \in 1..Len(kept) |-> [kept[n] EXCEPT !.codigo = LoaderCodigo(kept[n])]]

\* A row of the legacy layout: its cells PRODUTO, CATEGORIA, SUBCATEGORIA and
\* VALOR UNITARIO. A cell is a text, " " for blanks only, or "NaN" as pandas
\* reads an empty cell.
LegacyRow(produto, categoria, subcategoria, valor) ==
    [PRODUTO |-> produto, CATEGORIA |-> categoria, SUBCATEGORIA |-> subcategoria,
     VALOR |-> valor]

\* str(row.get(col) or "").strip(): NaN is true and str(NaN) is 'nan'.
StrCell(c) == IF c = "NaN" THEN "nan" ELSE IF c = " " THEN "" ELSE c

\* _extract_entities_excel: a dict for each row with a PRODUTO; the dict has
\* no key codigo.
_extract_entities_excel(rows) ==
    LET kept == SelectSeq(rows, LAMBDA r : StrCell(r.PRODUTO) # "")
    IN  [n \in 1..Len(kept) |->
            [nome |-> StrCell(kept[n].PRODUTO), categoria |-> StrCell(kept[n].CATEGORIA),
             subcategoria |-> StrCell(kept[n].SUBCATEGORIA),
             valor_base |-> kept[n].VALOR]]

\* p.get(key, default)
DictGet(p, key, default) == IF key \in DOMAIN p THEN p[key] ELSE default

\* The categories and subcategories the tables hold, by name.
CategoryNames == {"Sala"}
SubcategoryNames == ("Mesas" :> "Sala")

LegacyRowChoices ==
    {LegacyRow(p, c, s, 1) : p \in {"Mesa", "Sofa"}, c \in {"Sala", "Quarto"},
                             s \in {" ", "Mesas"}} \cup
    {LegacyRow("Mesa", " ", " ", 1), LegacyRow(" ", "Sala", " ", 1),
     LegacyRow("NaN", "NaN", "NaN", 1)}

\* One upload of a file of either layout.
LegacyFiles ==
    {[kind |-> "legacy", rows |-> r] : r \in SeqsUpTo(LegacyRowChoices, MaxRows)} \cup
    {[kind |-> "ok", rows |-> <<r>>] : r \in RowChoices}

Range(s) == {s[n] : n \in DOMAIN s}

\* list(dict.fromkeys(image_urls)): first occurrences, in order.
RECURSIVE Dedup(_)
Dedup(s) ==
    IF s = <<>> THEN <<>>
    ELSE LET r == Dedup(SubSeq(s, 1, Len(s) - 1))
         IN  IF s[Len(s)] \in Range(r) THEN r ELSE Append(r, s[Len(s)])

\* ------------------------------------------------ CreateProductUseCase.execute
RunIdle ==
    [pc |-> "idle", job |-> 0, rows |-> <<>>, i |-> 0, summary |-> EmptySummary,
     seen_categorias |-> {}, seen_subcategorias |-> {}, produto |-> "",
     unique_urls |-> <<>>, idx |-> 0, existing_urls |-> {},
     processed_local_urls |-> {}]

\* What the run has done: downloads started, files written, downloads
\* started for a raw link this run had already fetched and stored, the raw
\* links fetched and stored, the local urls the current row resolved, the
\* product and resolved urls of the row just finished, and the image rows
\* committed when the run began.
HistIdle ==
    [downloads |-> 0, writes |-> 0, refetch |-> 0, resolved |-> {},
     rowResolved |-> {}, rowDone |-> None, before |-> EmptyBag]

\* The entries appended to summary["errors"]; enumerate counts from 0 and the
\* entry says idx + 2.
ProdutoError(i, codigo, tag) ==
    [row |-> i + 1, type |-> "produto", codigo |-> codigo, error |-> tag]
ImagemError(codigo, tag) ==
    [type |-> "imagem", product_codigo |-> codigo, error |-> tag]

AddError(r, e) == [r EXCEPT !.summary.errors = Append(@, e)]

\* continue / the end of one pass of the loop over produtos_data.
NextRow(r) == [r EXCEPT !.i = @ + 1, !.pc = "row"]
RowError(r, tag) == NextRow(AddError(r, ProdutoError(r.i, r.rows[r.i].codigo, tag)))

\* continue in the loop over unique_urls.
NextImage(r) == [r EXCEPT !.idx = @ + 1, !.pc = "img"]
ImageError(r, tag) == NextImage(AddError(r, ImagemError(r.produto, tag)))

\* execute is entered with the worker's session.
RunBegin(j) ==
    /\ wpc[j] = "execute"
    /\ run.pc = "idle"
    /\ run' = [RunIdle EXCEPT !.pc = IF clean[j] THEN "clean" ELSE "read", !.job = j]
    /\ hist' = [HistIdle EXCEPT !.before = db.images]
    /\ wpc' = [wpc EXCEPT ![j] = "running"]
    /\ UNCHANGED <<jobs, lock, now, pend, wexc, wres, clientVars, storeVars, fetch, file, extVars>>

\* _clean_all_data: the rows of imagens_produto and of produtos are deleted
\* in the session, and in between delete_all_images unlinks the files of
\* assets/produtos one by one; an exception stops it and the files left stay.
RunClean ==
    /\ run.pc = "clean"
    /\ tx' = [tx EXCEPT ![run.job] = EmptyCatalog]
    /\ \E left \in SUBSET DOMAIN disk : disk' = [n \in left |-> disk[n]]
    /\ run' = [run EXCEPT !.pc = "read"]
    /\ UNCHANGED <<jobVars, clientVars, db, active, fetch, file, hist, extVars>>

\* execute raises to the worker.
RunRaise(j, msg) ==
    /\ wexc' = [wexc EXCEPT ![j] = Some(msg)]
    /\ wpc' = [wpc EXCEPT ![j] = "except"]
    /\ run' = RunIdle

\* loader.read, validate_columns, extract_entities. A ValueError of the first
\* two reaches the outer handler: session.rollback() and HTTPException 500.
\* No product extracted: HTTPException 400, re-raised as it is.
RunRead ==
    /\ run.pc = "read"
    /\ LET j == run.job
           detected_format == IF file.kind = "legacy" THEN "excel" ELSE "csv"
           produtos_data == IF detected_format = "excel"
                            THEN _extract_entities_excel(file.rows)
                            ELSE extract_entities(file.rows)
       IN  IF file.kind \notin {"ok", "legacy"}
           THEN /\ RunRaise(j, "500: Erro ao processar planilha: " \o file.kind)
                /\ tx' = [tx EXCEPT ![j] = db]
                /\ active' = [active EXCEPT ![j] = TRUE]
           ELSE IF produtos_data = <<>>
           THEN /\ RunRaise(j, "400: Nenhum produto valido encontrado na planilha")
                /\ UNCHANGED <<tx, active>>
           ELSE /\ run' = [run EXCEPT !.pc = IF detected_format = "excel" THEN "excel_row"
                                             ELSE "row",
                                      !.rows = produtos_data, !.i = 1]
                /\ UNCHANGED <<wexc, wpc, tx, active>>
    /\ UNCHANGED <<jobs, lock, now, pend, wres, clientVars, db, disk, fetch, file, hist, extVars>>

\* What one pass of the loop of _process_csv_format leaves, up to the call of
\* _process_product_images: the locals, the session's tables, whether the
\* session is still active, and how the pass went on: "skipped" (no product:
\* continue or the except), "returned" (_process_product_images returned at
\* once), "loop" (the loop over the links is next). r: the locals, t: the
\* session's tables, a: Session.is_active.
\* Every query and flush of a session that is not active raises
\* PendingRollbackError, which the except of the pass records.
RowLeaves(r, t, a, images) ==
    [run |-> r, tx |-> t, active |-> a, images |-> images]

\* The product of the row is there (found and updated, or created):
\* _process_product_images begins. No link: it returns at once. Otherwise
\* existing_images, unique_urls and the empty processed_local_urls.
EnterImages(r, t, p) ==
    IF p.image_urls = <<>>
    THEN RowLeaves(NextRow([r EXCEPT !.produto = p.codigo]), t, TRUE, "returned")
    ELSE RowLeaves([r EXCEPT !.pc = "img", !.produto = p.codigo,
                             !.unique_urls = Dedup(p.image_urls), !.idx = 1,
                             !.existing_urls = ImagesOf(t, p.codigo),
                             !.processed_local_urls = {}],
                   t, TRUE, "loop")

\* get_by_codigo, then the update of the product found or the creation of a
\* new one. The flush of a codigo longer than the column raises, which rolls
\* the session's transaction back and leaves the session inactive.
UpsertProduct(r, t, a, p) ==
    IF ~a THEN RowLeaves(RowError(r, "PendingRollbackError"), t, a, "skipped")
    ELSE IF p.codigo \in DOMAIN t.products
    THEN IF t.products[p.codigo].valor_base # p.valor_base
         THEN EnterImages([r EXCEPT !.summary.produtos_updated = @ + 1],
                          [t EXCEPT !.products[p.codigo].valor_base = p.valor_base], p)
         ELSE EnterImages(r, t, p)
    ELSE IF Len(p.codigo) > MaxCodigoLen
    THEN RowLeaves(RowError(r, "DataError"), db, FALSE, "skipped")
    ELSE EnterImages([r EXCEPT !.summary.produtos_created = @ + 1],
                     [t EXCEPT !.products = @ @@ (p.codigo :> [valor_base |-> p.valor_base])],
                     p)

\* The subcategory of the row, optional, looked up once per
\* (id_categoria, id_subcategoria).
LookupSubcategoria(r, t, a, p) ==
    LET key == <<p.id_categoria, p.id_subcategoria>>
    IN  IF p.id_subcategoria = 0 \/ key \in r.seen_subcategorias
        THEN UpsertProduct(r, t, a, p)
        ELSE IF ~a THEN RowLeaves(RowError(r, "PendingRollbackError"), t, a, "skipped")
        ELSE IF \/ p.id_subcategoria \notin DOMAIN Subcategories
                \/ Subcategories[p.id_subcategoria] # p.id_categoria
        THEN RowLeaves(RowError(r, "Subcategoria nao encontrada"), t, a, "skipped")
        ELSE UpsertProduct([r EXCEPT !.seen_subcategorias = @ \cup {key}], t, a, p)

\* The category of the row, required, looked up once per id.
LookupCategoria(r, t, a, p) ==
    IF p.id_categoria = 0
    THEN RowLeaves(RowError(r, "ID da categoria nao informado"), t, a, "skipped")
    ELSE IF p.id_categoria \in r.seen_categorias
    THEN LookupSubcategoria(r, t, a, p)
    ELSE IF ~a THEN RowLeaves(RowError(r, "PendingRollbackError"), t, a, "skipped")
    ELSE IF p.id_categoria \notin Categories
    THEN RowLeaves(RowError(r, "Categoria nao encontrada"), t, a, "skipped")
    ELSE LookupSubcategoria([r EXCEPT !.seen_categorias = @ \cup {p.id_categoria}], t, a, p)

\* One pass of the loop of _process_csv_format, or its end.
RunRow ==
    /\ run.pc = "row"
    /\ LET j == run.job
       IN  IF run.i > Len(run.rows)
           THEN /\ run' = [run EXCEPT !.pc = "finish"]
                /\ hist' = [hist EXCEPT !.rowDone = None]
                /\ UNCHANGED <<tx, active>>
           ELSE LET out == LookupCategoria(run, tx[j], active[j], run.rows[run.i])
                IN  /\ run' = out.run
                    /\ tx' = [tx EXCEPT ![j] = out.tx]
                    /\ active' = [active EXCEPT ![j] = out.active]
                    /\ hist' = [hist EXCEPT
                                  !.rowResolved = {},
                                  !.rowDone =
                                     IF out.images = "returned"
                                     THEN Some([produto |-> out.run.produto,
                                                resolved |-> {}])
                                     ELSE None]
    /\ UNCHANGED <<jobVars, clientVars, db, disk, fetch, file, extVars>>

\* The entry the legacy pass appends to summary["errors"].
LegacyError(i, nome, tag) ==
    [row |-> i + 1, type |-> "produto", nome |-> nome, error |-> tag]

\* One pass of the loop of _process_excel_format, or its end: the category
\* by name, found or created, the subcategory likewise, then the product by
\* p.get('codigo', ''), and continue when that is empty.
RunExcelRow ==
    /\ run.pc = "excel_row"
    /\ LET j == run.job
           p == run.rows[run.i]
           cat_key == p.categoria
           sub_key == p.subcategoria
           sc_key == <<cat_key, sub_key>>
           cat_new == cat_key \notin run.seen_categorias /\ cat_key \notin CategoryNames
           sub_seen == sub_key # "" /\ sc_key \notin run.seen_subcategorias
           sub_new == /\ sub_seen
                      /\ ~(sub_key \in DOMAIN SubcategoryNames
                           /\ SubcategoryNames[sub_key] = cat_key)
           looked == [run EXCEPT
                        !.seen_categorias = @ \cup {cat_key},
                        !.seen_subcategorias = IF sub_seen THEN @ \cup {sc_key} ELSE @,
                        !.summary.categorias_created = IF cat_new THEN @ + 1 ELSE @,
                        !.summary.subcategorias_created = IF sub_new THEN @ + 1 ELSE @]
           product_code == DictGet(p, "codigo", "")
       IN  IF run.i > Len(run.rows)
           THEN /\ run' = [run EXCEPT !.pc = "finish"]
                /\ UNCHANGED tx
           ELSE IF cat_key = ""
           THEN /\ run' = [AddError(run, LegacyError(run.i, p.nome, "Category nao informada"))
                            EXCEPT !.i = @ + 1]
                /\ UNCHANGED tx
           ELSE IF product_code = ""
           THEN /\ run' = [looked EXCEPT !.i = @ + 1]
                /\ UNCHANGED tx
           ELSE IF product_code \in DOMAIN tx[j].products
           THEN /\ run' = [looked EXCEPT
                             !.i = @ + 1,
                             !.summary.produtos_updated =
                                IF tx[j].products[product_code].valor_base # p.valor_base
                                THEN @ + 1 ELSE @]
                /\ tx' = [tx EXCEPT ![j].products[product_code].valor_base = p.valor_base]
           ELSE /\ run' = [looked EXCEPT !.i = @ + 1, !.summary.produtos_created = @ + 1]
                /\ tx' = [tx EXCEPT ![j].products =
                             @ @@ (product_code :> [valor_base |-> p.valor_base])]
    /\ UNCHANGED <<jobVars, clientVars, db, active, disk, fetch, file, hist, extVars>>

\* is_local_url: '/api/assets/' in download_url (a download url starts with
\* http, so the second test adds nothing).
is_local_url(url) == Contains(UrlText(url), <<"/api/assets/">>)

\* One pass of the loop over unique_urls up to the download, or the end of
\* the loop: the rows of existing_images whose url was not processed are
\* deleted and the pass of the row ends.
\* A link that is local already is stored as it is, with a "/" put before it
\* because it does not start with one. The test drive_url_clean in
\* processed_local_urls compares a raw http link with the local urls
\* collected, none of which is an http link.
ImageNext ==
    /\ run.pc = "img"
    /\ LET j == run.job
           u == run.unique_urls[run.idx]
           download_url == convert_drive_link(u)
       IN  IF run.idx > Len(run.unique_urls)
           THEN /\ tx' = [tx EXCEPT ![j] =
                            DeleteImages(@, run.produto,
                                         run.existing_urls \ run.processed_local_urls)]
                /\ run' = NextRow(run)
                /\ hist' = [hist EXCEPT !.rowDone = Some([produto |-> run.produto,
                                                          resolved |-> hist.rowResolved])]
                /\ UNCHANGED fetch
           ELSE IF u.shape \in {"blank", "text"}
           THEN /\ run' = NextImage(run)
                /\ UNCHANGED <<tx, hist, fetch>>
           ELSE IF IsNone(download_url)
           THEN /\ run' = ImageError(run, "Nao foi possivel converter link")
                /\ UNCHANGED <<tx, hist, fetch>>
           ELSE IF is_local_url(Val(download_url))
           THEN LET local_url == "/" \o Join(UrlText(Val(download_url)))
                    seen == [run EXCEPT !.processed_local_urls = @ \cup {local_url}]
                IN  /\ IF local_url \in run.existing_urls
                       THEN /\ run' = NextImage(seen)
                            /\ UNCHANGED tx
                       ELSE /\ run' = NextImage([seen EXCEPT !.summary.imagens_created = @ + 1])
                            /\ tx' = [tx EXCEPT ![j] = AddImage(@, run.produto, local_url)]
                    /\ hist' = [hist EXCEPT !.rowResolved = @ \cup {local_url}]
                    /\ UNCHANGED fetch
           ELSE /\ fetch' = FetchBegin(Val(download_url), DefaultMaxAttempts)
                /\ run' = [run EXCEPT !.pc = "fetch"]
                /\ hist' = [hist EXCEPT !.downloads = @ + 1,
                                        !.refetch = IF u \in hist.resolved THEN @ + 1 ELSE @]
                /\ UNCHANGED tx
    /\ UNCHANGED <<jobVars, clientVars, db, active, disk, file, extVars>>

\* The rest of the pass, once download_image returned. No bytes: an error
\* entry. save_image_from_bytes: the file of that name is kept when there is
\* one, written otherwise; any exception makes it return None. Then
\* get_by_url and, unless the row it gives is of this product, a new row.
ImageStore ==
    /\ run.pc = "fetch"
    /\ fetch.pc = "done"
    /\ fetch' = FetchIdle
    /\ LET j == run.job
           u == run.unique_urls[run.idx]
           name == FileName(run.produto, run.idx, Len(run.unique_urls))
           local_url == PublicUrl(name)
           owners == OwnersOf(tx[j], local_url)
           stored == [hist EXCEPT !.resolved = @ \cup {u},
                                  !.rowResolved = @ \cup {local_url},
                                  !.writes = IF name \in DOMAIN disk THEN @ ELSE @ + 1]
           seen == [run EXCEPT !.processed_local_urls = @ \cup {local_url}]
       IN  IF IsNone(fetch.res)
           THEN /\ run' = ImageError(run, "Falha no download da imagem")
                /\ UNCHANGED <<tx, disk, hist>>
           ELSE \/ /\ run' = ImageError(run, "Falha ao salvar imagem localmente")
                   /\ UNCHANGED <<tx, disk, hist>>
                \/ /\ disk' = IF name \in DOMAIN disk THEN disk
                              ELSE disk @@ (name :> Val(fetch.res))
                   /\ hist' = stored
                   /\ \/ /\ run.produto \in owners
                         /\ run' = NextImage(seen)
                         /\ UNCHANGED tx
                      \/ /\ owners = {} \/ owners \ {run.produto} # {}
                         /\ run' = NextImage([seen EXCEPT !.summary.imagens_created = @ + 1])
                         /\ tx' = [tx EXCEPT ![j] = AddImage(@, run.produto, local_url)]
    /\ UNCHANGED <<jobVars, clientVars, db, active, file, extVars>>

\* _generate_updated_excel reads the tables and writes a copy of the sheet
\* (its errors are swallowed); execute returns the result dict.
RunReturn ==
    /\ run.pc = "finish"
    /\ wres' = [wres EXCEPT ![run.job] = Some(ExecuteResult(run.summary))]
    /\ wpc' = [wpc EXCEPT ![run.job] = "commit"]
    /\ run' = RunIdle
    /\ UNCHANGED <<jobs, lock, now, pend, wexc, clientVars, storeVars, fetch, file, hist, extVars>>


\* ------------------------------------------- UploadPlanilhaUseCase.execute

\* _parse_image_urls of the imagem_url cell of one row: the links it lists.
PlanilhaLinks == {V1, E1, O1, U1, D1, V2, D0, S1, X0, M1}
PlanilhaRows == SeqsUpTo(PlanilhaLinks, MaxLinks)

RECURSIVE CountLinks(_)
CountLinks(rows) ==
    IF rows = <<>> THEN 0 ELSE Len(Head(rows)) + CountLinks(Tail(rows))

\* The sheets posted to /upload/planilha-imagens: one without the required
\* columns, or the image cells of its rows.
Sheets ==
    {[kind |-> "missing_columns", rows |-> <<>>]} \cup
    {[kind |-> "ok", rows |-> r] :
        r \in {s \in SeqsUpTo(PlanilhaRows, MaxRows) : CountLinks(s) <= MaxLinks}}

\* is_supabase_url: 'supabase.co' in download_url or 'supabase' in its
\* lower case.
is_supabase_url(url) == Contains(UrlText(url), <<StorageHost>>)

\* What the SDK's get_public_url gives for an object path.
StorageUrl(path) == StorageHost \o "/storage/v1/object/public/bucket/" \o path

\* upload_image: the upload raises, or get_public_url fails after it, and the
\* call returns None; otherwise the public url the SDK gives.
UploadOutcomes == {"ok", "upload_error", "url_error"}

\* An upload that answers with the url of the path whatever happened.
upload_image_guessing(path, outcome) == Some(StorageUrl(path))

upload_image(path, outcome) ==
    IF outcome = "ok" THEN Some(StorageUrl(path)) ELSE None

\* The bucket after upload_image: the upload itself stores the object
\* (upsert) unless it raised.
Uploaded(b, path, content, outcome) ==
    IF outcome = "upload_error" THEN b
    ELSE [p \in DOMAIN b \cup {path} |-> IF p = path THEN content ELSE b[p]]

\* The locals of execute and the instance's _shared_image_cache; events is
\* what became of each link so far.
UpIdle ==
    [pc |-> "idle", rows |-> <<>>, i |-> 0, idx |-> 0, cache |-> <<>>,
     supabase_urls |-> <<>>, linha_errors |-> 0, success_count |-> 0,
     error_count |-> 0, total_imagens_processadas |-> 0, imagem_supabase |-> <<>>,
     key |-> "", events |-> <<>>]

\* One link of the sheet: the raw link, its key and object path ("" when
\* none was computed), how it went (convert, direct, hit, fetch), whether it
\* gave a url, and the url.
Event(link, key, act, url) ==
    [link |-> link, key |-> key,
     path |-> IF key = "" THEN "" ELSE _shared_object_path(key),
     act |-> act, url |-> url]

\* supabase_urls.append(supabase_url) and the two counters.
LinkDone(u, e) ==
    [u EXCEPT !.supabase_urls = Append(@, Val(e.url)),
              !.total_imagens_processadas = @ + 1,
              !.idx = @ + 1, !.pc = "link", !.key = "",
              !.events = Append(@, e)]

\* A failure that leaves an entry for the key in the cache all the same.
LinkFailedCaching(u, e) ==
    [u EXCEPT !.linha_errors = @ + 1, !.idx = @ + 1, !.pc = "link", !.key = "",
              !.events = Append(@, e),
              !.cache = IF e.key = "" THEN @
                        ELSE [k \in DOMAIN @ \cup {e.key} |->
                                 IF k = e.key THEN StorageUrl(e.path) ELSE @[k]]]

\* linha_errors += 1; continue
LinkFailed(u, e) ==
    [u EXCEPT !.linha_errors = @ + 1, !.idx = @ + 1, !.pc = "link", !.key = "",
              !.events = Append(@, e)]

\* The endpoint builds a new UploadPlanilhaUseCase and calls execute:
\* read_excel and the check of the columns.
UploadBegin ==
    /\ up.pc = "idle"
    /\ fetch.pc = "idle"
    /\ \E s \in Sheets :
          up' = IF s.kind # "ok"
                THEN [UpIdle EXCEPT !.pc = "raised"]
                ELSE [UpIdle EXCEPT !.pc = "row", !.rows = s.rows, !.i = 1,
                                    !.imagem_supabase = [n \in 1..Len(s.rows) |-> <<>>]]
    /\ UNCHANGED <<jobVars, clientVars, storeVars, runVars, bucket, race, auxVars>>

\* The head of one pass of the loop over the rows, or its end.
UploadRow ==
    /\ up.pc = "row"
    /\ up' = IF up.i > Len(up.rows) THEN [up EXCEPT !.pc = "excel"]
             ELSE IF up.rows[up.i] = <<>> THEN [up EXCEPT !.i = @ + 1]
             ELSE [up EXCEPT !.pc = "link", !.idx = 1, !.supabase_urls = <<>>,
                             !.linha_errors = 0]
    /\ UNCHANGED <<jobVars, clientVars, storeVars, runVars, bucket, race, auxVars>>

\* One pass of the loop over the links of the row up to the download, or the
\* end of the row.
UploadLink ==
    /\ up.pc = "link"
    /\ LET u == up.rows[up.i][up.idx]
           download_url == convert_drive_link(u)
           key == _image_key(u, Val(download_url))
       IN  IF up.idx > Len(up.rows[up.i])
           THEN /\ up' = [up EXCEPT
                            !.imagem_supabase[up.i] = up.supabase_urls,
                            !.success_count = IF up.supabase_urls # <<>> THEN @ + 1 ELSE @,
                            !.error_count = (IF up.supabase_urls # <<>> THEN @ ELSE @ + 1)
                                               + up.linha_errors,
                            !.i = @ + 1, !.pc = "row"]
                /\ UNCHANGED fetch
           ELSE IF IsNone(download_url)
           THEN /\ up' = LinkFailed(up, Event(u, "", "convert", None))
                /\ UNCHANGED fetch
           ELSE IF is_supabase_url(Val(download_url))
           THEN /\ up' = LinkDone(up, Event(u, "", "direct",
                                            Some(Join(UrlText(Val(download_url))))))
                /\ UNCHANGED fetch
           ELSE IF key \in DOMAIN up.cache
           THEN /\ up' = LinkDone(up, Event(u, key, "hit", Some(up.cache[key])))
                /\ UNCHANGED fetch
           ELSE /\ up' = [up EXCEPT !.pc = "fetch", !.key = key]
                /\ fetch' = FetchBegin(Val(download_url), DefaultMaxAttempts)
    /\ UNCHANGED <<jobVars, clientVars, storeVars, file, run, hist, bucket, race, auxVars>>

\* The rest of the pass, once download_image_with_meta returned: no bytes,
\* or upload_image and, when it gave a url, the entry of the cache.
UploadStore ==
    /\ up.pc = "fetch"
    /\ fetch.pc = "done"
    /\ fetch' = FetchIdle
    /\ LET u == up.rows[up.i][up.idx]
           object_path == _shared_object_path(up.key)
       IN  IF IsNone(fetch.res)
           THEN /\ up' = LinkFailed(up, Event(u, up.key, "fetch", None))
                /\ UNCHANGED bucket
           ELSE \E o \in UploadOutcomes :
                   LET supabase_url == upload_image(object_path, o)
                       e == Event(u, up.key, "fetch", supabase_url)
                   IN  /\ bucket' = Uploaded(bucket, object_path, Val(fetch.res), o)
                       /\ up' = IF IsNone(supabase_url)
                                THEN LinkFailed(up, e)
                                ELSE LinkDone([up EXCEPT !.cache =
                                                 [k \in DOMAIN @ \cup {up.key} |->
                                                     IF k = up.key THEN Val(supabase_url)
                                                     ELSE @[k]]], e)
    /\ UNCHANGED <<jobVars, clientVars, storeVars, file, run, hist, race, auxVars>>

\* The sheet with its imagem_supabase column is written and uploaded:
\* upload_file gives its url, or None and execute raises.
UploadExcel ==
    /\ up.pc = "excel"
    /\ \E ok \in BOOLEAN : up' = [up EXCEPT !.pc = IF ok THEN "done" ELSE "raised"]
    /\ UNCHANGED <<jobVars, clientVars, storeVars, runVars, bucket, race, auxVars>>

\* The endpoint answers 200, 400 or 500; the instance and its cache are
\* dropped.
UploadReturn ==
    /\ up.pc \in {"done", "raised"}
    /\ up' = UpIdle
    /\ UNCHANGED <<jobVars, clientVars, storeVars, runVars, bucket, race, auxVars>>

\* ------------------------------------------------ two runs side by side
\* Two background tasks at a time, each with a session of its own, each on a
\* file of one row: a codigo, category 1, no image. Under READ COMMITTED a
\* query sees what is committed and what its own session wrote.
RaceCodes == {"A", "B"}

RaceIdle == [pc |-> "idle", codigo |-> "", summary |-> EmptySummary]

\* The codigos a query of session j finds.
Visible(j) == DOMAIN db.products \cup DOMAIN tx[j].products

\* The session of worker k is open: from Session() to close().
OpenSession(k) ==
    \/ wpc[k] \in {"execute", "running", "commit", "completed", "except", "rollback",
                   "finally"}
    \/ wpc[k] \in {"upd", "upd_time", "upd_kw"} /\ pend[k].next \in {"rollback", "finally"}

\* The codigos session k has inserted and not committed.
Uncommitted(k) ==
    IF OpenSession(k) THEN DOMAIN tx[k].products \ DOMAIN db.products ELSE {}

\* execute is entered: the file is read and its row extracted.
RaceBegin(j) ==
    /\ wpc[j] = "execute"
    /\ \E c \in RaceCodes :
          race' = [race EXCEPT ![j] = [RaceIdle EXCEPT !.pc = "lookup", !.codigo = c]]
    /\ wpc' = [wpc EXCEPT ![j] = "running"]
    /\ UNCHANGED <<jobs, lock, now, pend, wexc, wres, clientVars, storeVars, runVars,
                   up, bucket, auxVars>>

\* get_by_codigo: the product is found, and with nothing to change the pass
\* ends, or it is not found and will be created.
RaceLookup(j) ==
    /\ race[j].pc = "lookup"
    /\ race' = [race EXCEPT ![j].pc =
                   IF race[j].codigo \in Visible(j) THEN "return" ELSE "insert"]
    /\ tx' = IF race[j].codigo \in DOMAIN db.products
             THEN [tx EXCEPT ![j].products =
                      @ @@ (race[j].codigo :> db.products[race[j].codigo])]
             ELSE tx
    /\ UNCHANGED <<jobVars, clientVars, db, active, disk, runVars, up, bucket, auxVars>>

\* product_repository.create: session.add and flush. The INSERT waits while
\* another session holds an uncommitted row of the same codigo; it raises
\* IntegrityError when a committed row has the codigo, which rolls the
\* session's transaction back, leaves the session inactive and is recorded by
\* the except of the pass.
RaceInsert(j) ==
    /\ race[j].pc = "insert"
    /\ \A k \in JobIds \ {j} : race[j].codigo \notin Uncommitted(k)
    /\ LET c == race[j].codigo
       IN  IF c \in DOMAIN db.products
           THEN /\ tx' = [tx EXCEPT ![j] = db]
                /\ active' = [active EXCEPT ![j] = FALSE]
                /\ race' = [race EXCEPT
                              ![j].pc = "return",
                              ![j].summary.errors =
                                 Append(@, ProdutoError(1, c, "IntegrityError"))]
           ELSE /\ tx' = [tx EXCEPT ![j].products = @ @@ (c :> [valor_base |-> 1])]
                /\ race' = [race EXCEPT ![j].pc = "return",
                                        ![j].summary.produtos_created = @ + 1]
                /\ UNCHANGED active
    /\ UNCHANGED <<jobVars, clientVars, db, disk, runVars, up, bucket, auxVars>>

\* execute returns the result dict.
RaceReturn(j) ==
    /\ race[j].pc = "return"
    /\ wres' = [wres EXCEPT ![j] = Some(ExecuteResult(race[j].summary))]
    /\ wpc' = [wpc EXCEPT ![j] = "commit"]
    /\ race' = [race EXCEPT ![j] = RaceIdle]
    /\ UNCHANGED <<jobs, lock, now, pend, wexc, clientVars, storeVars, runVars, up, bucket, auxVars>>

\* ------------------------------------- ExcelLoaderService._extract_image_urls
\* The text of an image cell, cut into the pieces the parser tells apart:
\* brackets, double quotes, commas, semicolons, blanks and the links, each
\* link a text without any of these.
MaxCellLinks == 3
CellUrls == {"u1", "u2"}
CellForms == {"json", "bracket", "semicolon", "comma", "bare"}

RECURSIVE Interleave(_, _)
Interleave(items, sep) ==
    IF Len(items) <= 1 THEN (IF items = <<>> THEN <<>> ELSE Head(items))
    ELSE Head(items) \o sep \o Interleave(Tail(items), sep)

\* A cell that lists the links in one of the accepted forms:
\*   json       ["u1", "u2"]
\*   bracket    [u1, u2]
\*   semicolon  u1; u2
\*   comma      u1, u2
\*   bare       u1
CellOf(form, links) ==
    LET quoted == [n \in DOMAIN links |-> <<"\"", links[n], "\"">>]
        plain == [n \in DOMAIN links |-> <<links[n]>>]
    IN  CASE form = "json" -> <<"[">> \o Interleave(quoted, <<",", " ">>) \o <<"]">>
          [] form = "bracket" -> <<"[">> \o Interleave(plain, <<",", " ">>) \o <<"]">>
          [] form = "semicolon" -> Interleave(plain, <<";", " ">>)
          [] form = "comma" -> Interleave(plain, <<",", " ">>)
          [] OTHER -> Interleave(plain, <<>>)

\* str.strip() of a text.
RECURSIVE Strip(_)
Strip(t) ==
    IF t = <<>> THEN t
    ELSE IF Head(t) = " " THEN Strip(Tail(t))
    ELSE IF t[Len(t)] = " " THEN Strip(SubSeq(t, 1, Len(t) - 1))
    ELSE t

\* json.loads of a text: the list of the strings of an array of strings, or
\* None where it raises JSONDecodeError (blanks between the items are
\* skipped; a text without quotes is not JSON).
json_loads(t) ==
    LET s == SelectSeq(t, LAMBDA x : x # " ")
        inner == SubSeq(s, 2, Len(s) - 1)
        shaped == /\ Len(s) >= 2 /\ s[1] = "[" /\ s[Len(s)] = "]"
                  /\ (inner = <<>> \/ (Len(inner) + 1) % 4 = 0)
                  /\ \A k \in DOMAIN inner :
                        CASE k % 4 = 0 -> inner[k] = ","
                          [] k % 4 = 2 -> inner[k] \in CellUrls
                          [] OTHER -> inner[k] = "\""
    IN  IF shaped THEN Some([n \in 1..((Len(inner) + 1) \div 4) |-> inner[4 * n - 2]])
        ELSE None

\* str.split(sep) of a text.
RECURSIVE Split(_, _)
Split(t, sep) ==
    IF \A n \in DOMAIN t : t[n] # sep THEN <<t>>
    ELSE LET k == CHOOSE n \in DOMAIN t : t[n] = sep /\ \A m \in 1..(n - 1) : t[m] # sep
         IN  <<SubSeq(t, 1, k - 1)>> \o Split(SubSeq(t, k + 1, Len(t)), sep)

\* _extract_image_urls on the text of the cell: the list json.loads gives,
\* or the text (without its brackets when it has both) split at ';' when it
\* has one, else at ',', else whole; every item stripped, empty items left
\* out.
_extract_image_urls(cell) ==
    LET image_str == Strip(cell)
        parsed == json_loads(image_str)
        body == IF image_str # <<>> /\ Head(image_str) = "[" /\ image_str[Len(image_str)] = "]"
                THEN Strip(SubSeq(image_str, 2, Len(image_str) - 1))
                ELSE image_str
        pieces == IF \E n \in DOMAIN body : body[n] = ";" THEN Split(body, ";")
                  ELSE IF \E n \in DOMAIN body : body[n] = "," THEN Split(body, ",")
                  ELSE <<body>>
        urls == [n \in DOMAIN pieces |-> Join(Strip(pieces[n]))]
    IN  IF image_str = <<>> THEN <<>>
        ELSE IF ~IsNone(parsed) THEN Val(parsed)
        ELSE SelectSeq(urls, LAMBDA u : u # "")

CellIdle == [pc |-> "idle", form |-> "", links |-> <<>>, cell |-> <<>>, urls |-> <<>>]

\* _extract_entities_csv reaches a row whose image cell lists some links in
\* one of the accepted forms.
CellCall ==
    /\ cellrun.pc = "idle"
    /\ \E form \in CellForms :
          \E links \in SeqsUpTo(CellUrls, MaxCellLinks) :
             /\ links # <<>>
             /\ form = "bare" => Len(links) = 1
             /\ cellrun' = [pc |-> "call", form |-> form, links |-> links,
                            cell |-> CellOf(form, links), urls |-> <<>>]
    /\ UNCHANGED <<jobVars, clientVars, storeVars, runVars, up, bucket, race, single, sweep, clean>>

\* image_urls = self._extract_image_urls(row)
ExtractImageUrls ==
    /\ cellrun.pc = "call"
    /\ cellrun' = [cellrun EXCEPT !.pc = "done", !.urls = _extract_image_urls(cellrun.cell)]
    /\ UNCHANGED <<jobVars, clientVars, storeVars, runVars, up, bucket, race, single, sweep, clean>>

\* The list goes into the produto dict and the loop goes on.
CellReturn ==
    /\ cellrun.pc = "done"
    /\ cellrun' = CellIdle
    /\ UNCHANGED <<jobVars, clientVars, storeVars, runVars, up, bucket, race, single, sweep, clean>>

\* ------------------------------------------------------ JobService singleton
\* The class before its first construction, and the threads that call
\* JobService() and then create_job through the reference they got.
\*   instance     cls._instance is not None
\*   initialized  the attribute _initialized of the instance ("unset" before
\*                it is first assigned)
\*   clslock      the thread inside 'with cls._lock' of __new__, or 0
\*   map, lockid  which dict self._jobs is and which lock self._lock is (0:
\*                none made yet, n: the n-th one made)
\*   held         the jobs in the dict that self._jobs is now
\*   pc           where each thread is
\*   made         for each thread that created its job, the dict and the lock
\*                that were in place then
\*   got          for each thread that called get_job, the job asked for and
\*                whether it was found
Threads == JobIds

SingleIdle ==
    [instance |-> FALSE, initialized |-> "unset", clslock |-> 0, map |-> 0, lockid |-> 0,
     held |-> {}, pc |-> [th \in Threads |-> "idle"], made |-> [th \in Threads |-> None],
     got |-> [th \in Threads |-> None]]

SingleUnchanged ==
    UNCHANGED <<jobVars, clientVars, storeVars, runVars, up, bucket, race, cellrun, sweep, clean>>

\* A thread calls JobService(): __new__ tests cls._instance outside the lock.
SingleNew(th) ==
    /\ single.pc[th] = "idle"
    /\ single' = [single EXCEPT !.pc[th] = IF single.instance THEN "init" ELSE "new_lock"]
    /\ SingleUnchanged

\* with cls._lock: the second test and, when it holds, the new object.
SingleNewLocked(th) ==
    /\ single.pc[th] = "new_lock"
    /\ single.clslock = 0
    /\ single' = IF single.instance THEN [single EXCEPT !.pc[th] = "init"]
                  ELSE [single EXCEPT !.instance = TRUE, !.clslock = th, !.pc[th] = "new_attr"]
    /\ SingleUnchanged

\* cls._instance._initialized = False, and the lock is released.
SingleNewAttr(th) ==
    /\ single.pc[th] = "new_attr"
    /\ single' = [single EXCEPT !.initialized = "false", !.clslock = 0, !.pc[th] = "init"]
    /\ SingleUnchanged

\* __init__: if self._initialized: return. The attribute may not be there
\* yet, and reading it raises AttributeError.
SingleInit(th) ==
    /\ single.pc[th] = "init"
    /\ single' = [single EXCEPT !.pc[th] =
                     CASE single.initialized = "unset" -> "raised"
                       [] single.initialized = "true" -> "ready"
                       [] OTHER -> "init_jobs"]
    /\ SingleUnchanged

\* self._jobs = {}
SingleInitJobs(th) ==
    /\ single.pc[th] = "init_jobs"
    /\ single' = [single EXCEPT !.map = @ + 1, !.held = {}, !.pc[th] = "init_lock"]
    /\ SingleUnchanged

\* self._lock = threading.Lock()
SingleInitLock(th) ==
    /\ single.pc[th] = "init_lock"
    /\ single' = [single EXCEPT !.lockid = @ + 1, !.pc[th] = "init_done"]
    /\ SingleUnchanged

\* self._initialized = True
SingleInitDone(th) ==
    /\ single.pc[th] = "init_done"
    /\ single' = [single EXCEPT !.initialized = "true", !.pc[th] = "ready"]
    /\ SingleUnchanged

\* create_job through the reference: the job goes into the dict that
\* self._jobs is at that moment.
SingleCreateJob(th) ==
    /\ single.pc[th] = "ready"
    /\ single' = [single EXCEPT !.held = @ \cup {th}, !.pc[th] = "created",
                                !.made[th] = Some([map |-> single.map, lockid |-> single.lockid])]
    /\ SingleUnchanged

\* get_job(id) through the reference, for a job that some thread created.
SingleGetJob(th, id) ==
    /\ single.pc[th] = "created"
    /\ ~IsNone(single.made[id])
    /\ single' = [single EXCEPT !.pc[th] = "polled",
                                !.got[th] = Some([id |-> id, found |-> id \in single.held])]
    /\ SingleUnchanged
\* ------------------------------------------------------------ specifications
InitJob ==
    /\ jobs = <<>>
    /\ lock = 0
    /\ now = 1
    /\ wpc = [j \in JobIds |-> "idle"]
    /\ pend = [j \in JobIds |-> NoPend]
    /\ wexc = [j \in JobIds |-> None]
    /\ wres = [j \in JobIds |-> None]
    /\ cpc = "idle"
    /\ cref = 0
    /\ cobs = None

InitStore ==
    /\ db = EmptyCatalog
    /\ tx = [j \in JobIds |-> EmptyCatalog]
    /\ active = [j \in JobIds |-> TRUE]
    /\ disk = <<>>
    /\ fetch = FetchIdle
    /\ run = RunIdle
    /\ hist = HistIdle
    /\ up = UpIdle
    /\ bucket = <<>>
    /\ race = [j \in JobIds |-> RaceIdle]
    /\ cellrun = CellIdle
    /\ single = SingleIdle
    /\ sweep = SweepIdle
    /\ clean = [j \in JobIds |-> FALSE]

NoFile == [kind |-> "ok", rows |-> <<>>]

\* No upload in progress and nothing stored.
InitBare == InitJob /\ InitStore /\ file = NoFile

WorkerWrap(j) ==
    \/ WorkerStart(j)
    \/ UpdEnter(j)
    \/ UpdTime(j)
    \/ UpdKwarg(j)
    \/ WorkerSession(j)
    \/ WorkerCommit(j)
    \/ WorkerCompleted(j)
    \/ WorkerExcept(j)
    \/ WorkerRollback(j)
    \/ WorkerFinally(j)
    \/ WorkerCritical(j)

\* The registry, concurrent workers and a polling client; execute is seen
\* from outside.
NextJob ==
    \/ \E j \in JobIds : Submit(j)
    \/ \E j \in JobIds : WorkerWrap(j)
    \/ \E j \in JobIds : ExecuteReturns(j)
    \/ \E j \in JobIds : ExecuteRaises(j)
    \/ \E j \in JobIds : ClientGetJob(j)
    \/ ClientRender
    \/ ClientDone
    \/ Tick

SpecJob == InitBare /\ [][NextJob]_vars

\* The download alone, for any max_attempts.
NextFetch ==
    \/ FetchCall
    \/ FetchRequest
    \/ FetchSleep
    \/ FetchReturn

SpecFetch == InitBare /\ [][NextFetch]_vars

\* The ingestion of one file, uploaded again once the job before it has
\* completed.
SubmitNext(j) ==
    /\ \A k \in JobIds : wpc[k] \in {"idle", "done"}
    /\ \A k \in DOMAIN jobs : jobs[k].status = COMPLETED
    /\ Submit(j)

Init == InitJob /\ InitStore /\ file \in Files

RunStep ==
    \/ \E j \in JobIds : WorkerWrap(j)
    \/ \E j \in JobIds : RunBegin(j)
    \/ RunRead
    \/ RunRow
    \/ ImageNext
    \/ FetchRequest
    \/ FetchSleep
    \/ ImageStore
    \/ RunReturn

Next ==
    \/ \E j \in JobIds : SubmitNext(j)
    \/ RunStep

Spec == Init /\ [][Next]_vars

\* One submission, followed to its end. The worker runs in a thread of the
\* pool and every step of it is a call that returns or times out: a step
\* that can be taken is taken.
NextOne ==
    \/ SubmitNext(1)
    \/ RunStep

FairSpec == Init /\ [][NextOne]_vars /\ WF_vars(RunStep)

\* The endpoint of the image sheets alone.
NextPlanilha ==
    \/ UploadBegin
    \/ UploadRow
    \/ UploadLink
    \/ FetchRequest
    \/ FetchSleep
    \/ UploadStore
    \/ UploadExcel
    \/ UploadReturn

SpecPlanilha == InitBare /\ [][NextPlanilha]_vars

\* One job, the polling client and the clock. Nothing in the program calls
\* cleanup_old_jobs: there is no step for it. The background task is run and
\* time passes.
JobStep(j) ==
    \/ WorkerWrap(j)
    \/ ExecuteReturns(j)
    \/ ExecuteRaises(j)

NextSweep ==
    \/ Submit(1)
    \/ JobStep(1)
    \/ \E j \in JobIds : ClientGetJob(j)
    \/ ClientRender
    \/ ClientDone
    \/ Tick

FairSpecJob ==
    InitBare /\ [][NextSweep]_vars /\ WF_vars(JobStep(1)) /\ WF_vars(Tick)

\* Two jobs at a time on the same tables.
NextRace ==
    \/ \E j \in JobIds : Submit(j)
    \/ \E j \in JobIds : WorkerWrap(j)
    \/ \E j \in JobIds : RaceBegin(j)
    \/ \E j \in JobIds : RaceLookup(j)
    \/ \E j \in JobIds : RaceInsert(j)
    \/ \E j \in JobIds : RaceReturn(j)

SpecRace == InitBare /\ [][NextRace]_vars

\* One file posted to one of the two endpoints: the ingestion of a file of
\* MoreFiles by one job, or, when no such file is posted, one image sheet.
InitMore == InitJob /\ InitStore /\ file \in MoreFiles

IngestOne ==
    \/ up.pc = "idle" /\ bucket = <<>> /\ SubmitNext(1)
    \/ RunStep

PlanilhaOnce ==
    \/ file = NoFile /\ jobs = <<>> /\ bucket = <<>> /\ UploadBegin
    \/ UploadRow
    \/ UploadLink
    \/ UploadStore
    \/ UploadExcel
    \/ UploadReturn

NextMore ==
    \/ IngestOne
    \/ PlanilhaOnce

SpecMore == InitMore /\ [][NextMore]_vars

\* The loader parsing image cells.
NextCell ==
    \/ CellCall
    \/ ExtractImageUrls
    \/ CellReturn

SpecCell == InitBare /\ [][NextCell]_vars

\* Two jobs, the clock, and a caller of cleanup_old_jobs.
NextCleanup ==
    \/ \E j \in JobIds : Submit(j)
    \/ \E j \in JobIds : JobStep(j)
    \/ Tick
    \/ CleanupCall
    \/ CleanupLocked

SpecCleanup == InitBare /\ [][NextCleanup]_vars

\* One upload of a file of the legacy layout or of the CSV layout.
InitLegacy == InitJob /\ InitStore /\ file \in LegacyFiles

NextLegacy ==
    \/ SubmitNext(1)
    \/ RunStep
    \/ RunExcelRow

SpecLegacy == InitLegacy /\ [][NextLegacy]_vars

\* A file is loaded by POST /product; then PUT /product loads a file, the
\* same or another one, with clean_before=True.
WipeFiles ==
    {[kind |-> k, rows |-> <<>>] : k \in {"unreadable", "missing_columns"}} \cup
    {[kind |-> "ok", rows |-> <<Row(TRUE, "A", 1, 0, 1, l)>>] : l \in {<<>>, <<V1>>, <<V1, V2>>}}

InitWipe == InitJob /\ InitStore /\ file \in WipeFiles

\* update_all_products: create_job and add_task with clean_before=True, for
\* the file now uploaded.
SubmitWipe(j) ==
    /\ j > 1
    /\ \A k \in JobIds : wpc[k] \in {"idle", "done"}
    /\ \A k \in DOMAIN jobs : jobs[k].status = COMPLETED
    /\ wpc[j] = "idle"
    /\ j \notin DOMAIN jobs
    /\ \A k \in JobIds : k < j => k \in DOMAIN jobs
    /\ lock = 0
    /\ jobs' = jobs @@ (j :> NewJob(j, now))
    /\ wpc' = [wpc EXCEPT ![j] = "queued"]
    /\ clean' = [clean EXCEPT ![j] = TRUE]
    /\ file' \in WipeFiles
    /\ UNCHANGED <<lock, now, pend, wexc, wres, clientVars, storeVars, fetch, run, hist,
                   up, bucket, race, cellrun, single, sweep>>

NextWipe ==
    \/ SubmitNext(1)
    \/ \E j \in JobIds : SubmitWipe(j)
    \/ RunStep
    \/ RunClean

SpecWipe == InitWipe /\ [][NextWipe]_vars

\* The first constructions of JobService, by several threads.
NextSingle ==
    \/ \E th \in Threads : SingleNew(th)
    \/ \E th \in Threads : SingleNewLocked(th)
    \/ \E th \in Threads : SingleNewAttr(th)
    \/ \E th \in Threads : SingleInit(th)
    \/ \E th \in Threads : SingleInitJobs(th)
    \/ \E th \in Threads : SingleInitLock(th)
    \/ \E th \in Threads : SingleInitDone(th)
    \/ \E th \in Threads : SingleCreateJob(th)
    \/ \E th, id \in Threads : SingleGetJob(th, id)

SpecSingle == InitBare /\ [][NextSingle]_vars

\* create_product called again, with the same file or another one: products
\* whose file names meet (A with two images and A_1 with one), and a product
\* whose link changes.
RerunFiles ==
    {[kind |-> "ok", rows |-> r] :
        r \in {<<Row(TRUE, "A", 1, 0, 1, <<V1>>)>>,
               <<Row(TRUE, "A", 1, 0, 1, <<V2>>)>>,
               <<Row(TRUE, "A", 1, 0, 1, <<V1, V2>>), Row(TRUE, "A_1", 1, 0, 1, <<V1>>)>>,
               <<Row(TRUE, "A_1", 1, 0, 1, <<V1>>), Row(TRUE, "A", 1, 0, 1, <<V1, V2>>)>>}}

InitRerun == InitJob /\ InitStore /\ file \in RerunFiles

SubmitAgain(j) ==
    /\ j > 1
    /\ \A k \in JobIds : wpc[k] \in {"idle", "done"}
    /\ \A k \in DOMAIN jobs : jobs[k].status = COMPLETED
    /\ wpc[j] = "idle"
    /\ j \notin DOMAIN jobs
    /\ \A k \in JobIds : k < j => k \in DOMAIN jobs
    /\ lock = 0
    /\ jobs' = jobs @@ (j :> NewJob(j, now))
    /\ wpc' = [wpc EXCEPT ![j] = "queued"]
    /\ file' \in RerunFiles
    /\ UNCHANGED <<lock, now, pend, wexc, wres, clientVars, storeVars, fetch, run, hist, extVars>>

NextRerun ==
    \/ SubmitNext(1)
    \/ \E j \in JobIds : SubmitAgain(j)
    \/ RunStep

SpecRerun == InitRerun /\ [][NextRerun]_vars

\* ------------------------------------------------------------------ claims
Terminal == {COMPLETED, FAILED}

\* C1: a job's status only moves pending -> processing -> completed or
\* pending -> processing -> failed; it never skips processing, never goes
\* back, and never changes once it is completed or failed.
C1_StatusFlow ==
    [][\A j \in DOMAIN jobs :
          j \in DOMAIN jobs' =>
             \/ jobs'[j].status = jobs[j].status
             \/ <<jobs[j].status, jobs'[j].status>> \in
                   {<<PENDING, PROCESSING>>, <<PROCESSING, COMPLETED>>,
                    <<PROCESSING, FAILED>>}]_vars

\* C2: whatever a polling request renders with status completed carries the
\* result and the summary, and whatever it renders with status failed
\* carries an error message.
C2_ObservedComplete ==
    ~IsNone(cobs) =>
       /\ Val(cobs).status = COMPLETED =>
             ~IsNone(Val(cobs).result) /\ ~IsNone(Val(cobs).summary)
       /\ Val(cobs).status = FAILED => ~IsNone(Val(cobs).error)

\* C5: once its worker has finished, a job in a terminal status, failed as
\* well as completed, carries a summary.
C5_TerminalHasSummary ==
    \A j \in DOMAIN jobs :
       wpc[j] = "done" /\ jobs[j].status \in Terminal => ~IsNone(jobs[j].summary)

\* C3: under fair scheduling of the worker every job that was created
\* eventually has its worker finished with status completed or failed, and
\* every download that was started eventually returns.
C3_EventuallyTerminal ==
    /\ \A j \in JobIds :
          (j \in DOMAIN jobs) ~> (wpc[j] = "done" /\ jobs[j].status \in Terminal)
    /\ (fetch.pc = "request") ~> (fetch.pc = "idle")

\* A job whose run started a download has finished.
C3_Witness ==
    \E j \in DOMAIN jobs :
       /\ wpc[j] = "done"
       /\ jobs[j].status \in Terminal
       /\ hist.downloads > 0

\* The database could not be reached: what commit, rollback and close leave
\* in the job's error.
DatabaseErrors ==
    {Some("commit_error"), Some("Erro critico: rollback_error"),
     Some("Erro critico: close_error")}

\* C4: a job on a file that can be read, has the required columns and has
\* data rows ends failed only when the database could not be reached,
\* however many of its rows or images are bad.
C4_OnlyFatalFails ==
    \A j \in DOMAIN jobs :
       wpc[j] = "done" /\ file.kind = "ok" /\ file.rows # <<>>
          /\ jobs[j].status = FAILED
       => jobs[j].error \in DatabaseErrors

\* C6: within one run no download is started for a raw link that the run
\* has already fetched and stored.
C6_FetchedOnce == hist.refetch = 0

\* C7: when the pass of a row over its product has ended, the urls of the
\* product's image rows are exactly the urls resolved for the links of that
\* row, also when the row lists no link.
C7_Reconciled ==
    ~IsNone(hist.rowDone) =>
       ImagesOf(tx[run.job], Val(hist.rowDone).produto) = Val(hist.rowDone).resolved

\* A row that would be stored if it were alone in the file.
GoodRow(r) ==
    /\ r.parse
    /\ r.id_categoria \in Categories
    /\ r.id_subcategoria # 0 =>
          /\ r.id_subcategoria \in DOMAIN Subcategories
          /\ Subcategories[r.id_subcategoria] = r.id_categoria
    /\ Len(r.codigo) <= MaxCodigoLen

\* C8: when a job has finished and the database was reachable, the product
\* of every good row of the file is in the committed table, whatever
\* happened to the other rows.
C8_RowsIsolated ==
    \A j \in DOMAIN jobs :
       wpc[j] = "done" /\ jobs[j].error \notin DatabaseErrors
       => \A n \in DOMAIN file.rows :
             GoodRow(file.rows[n]) => file.rows[n].codigo \in DOMAIN db.products

\* The waits of a download that never succeeds: 1, 2, 4, 8, then 10.
ExpectedSleeps == <<1, 2, 4, 8, 10, 10, 10, 10>>

\* C9: a download with max_attempts >= 1 whose every attempt ended in a
\* retryable outcome has made exactly max_attempts requests, has slept
\* min(2^(k-1), 10) after the k-th attempt except the last, and returns None.
C9_RetryBounded ==
    fetch.pc = "done" /\ fetch.allRetryable /\ fetch.max >= 1
    => /\ fetch.requests = fetch.max
       /\ fetch.sleeps = SubSeq(ExpectedSleeps, 1, fetch.max - 1)
       /\ IsNone(fetch.res)

\* Six attempts, all retryable: the cap of 10 is reached.
C9_Witness ==
    /\ fetch.pc = "done"
    /\ fetch.allRetryable
    /\ fetch.max = 6
    /\ fetch.requests = 6
    /\ fetch.sleeps = <<1, 2, 4, 8, 10>>

\* No codigo on two rows.
DistinctCodes(rows) ==
    \A m, n \in DOMAIN rows : rows[m].codigo = rows[n].codigo => m = n

\* C10: when the second job over the unchanged file, a file with no codigo
\* on two rows, has finished after a first job that completed without any
\* error entry, it has started no download and written no file, the
\* committed image rows are those it found, and its summary counts no
\* product created or updated and no image created.
C10_RerunIsNoop ==
    2 \in DOMAIN jobs /\ wpc[2] = "done" /\ jobs[2].status = COMPLETED
       /\ Val(jobs[1].summary).errors = <<>> /\ DistinctCodes(file.rows)
    => /\ hist.downloads = 0
       /\ hist.writes = 0
       /\ db.images = hist.before
       /\ Val(jobs[2].summary).produtos_created = 0
       /\ Val(jobs[2].summary).produtos_updated = 0
       /\ Val(jobs[2].summary).imagens_created = 0


\* The share-link shapes of Drive.
DriveShapes == {"view", "edit", "open", "uc", "export"}

\* Two raw links that carry the same Drive file id.
SameDriveFile(a, b) ==
    /\ a.shape \in DriveShapes
    /\ b.shape \in DriveShapes
    /\ a.id # 0
    /\ a.id = b.id

\* The links of the sheet for which a key was computed.
Keyed == {n \in DOMAIN up.events : up.events[n].act \in {"hit", "fetch"}}

\* C11: any two links of a sheet that carry the same Drive file id, in
\* whatever share-link shapes, were given the same content key and the same
\* object path, and the key is drive_<id>.
C11_SameFileSameKey ==
    \A m, n \in Keyed :
       SameDriveFile(up.events[m].link, up.events[n].link)
       => /\ up.events[m].key = up.events[n].key
          /\ up.events[m].path = up.events[n].path
          /\ up.events[m].key = "drive_" \o ToString(up.events[m].link.id)

\* Two shapes of one file in one sheet: the export link was fetched and
\* stored, the open?id= link was served by the object stored for it.
C11_Witness ==
    /\ \E m, n \in Keyed :
          /\ SameDriveFile(up.events[m].link, up.events[n].link)
          /\ up.events[m].link.shape = "export"
          /\ up.events[n].link.shape = "open"
          /\ up.events[m].act = "fetch"
          /\ up.events[n].act = "hit"
    /\ DOMAIN bucket = {"produtos/shared/drive_1.jpg"}

\* C12: a job whose worker has finished and that has been completed or
\* failed for longer than the maximum age is eventually gone from the
\* registry, whether or not anyone polls.
C12_StaleJobsPurged ==
    \A j \in JobIds :
       (/\ j \in DOMAIN jobs
        /\ wpc[j] = "done"
        /\ jobs[j].status \in Terminal
        /\ Expired(jobs[j], now))
          ~> (j \notin DOMAIN jobs)

\* C16: a step of a polling request, whether it finds the job or not and
\* whatever the job's age or status, leaves the registry as it was: the same
\* jobs with the same fields.
C16_PollReadOnly ==
    [][cpc' # cpc => jobs' = jobs]_vars

\* A poll has returned a job that had been failed or completed for longer
\* than the maximum age, and the job is still registered.
C16_Witness ==
    /\ cpc = "shown"
    /\ cref \in DOMAIN jobs
    /\ wpc[cref] = "done"
    /\ Expired(jobs[cref], now)
    /\ Val(cobs) = jobs[cref]

\* C13: of two jobs that run at a time on the same tables, each one that has
\* finished with the database reachable is completed and has no error entry:
\* none got a uniqueness error for a codigo the other created.
C13_AtomicUpsert ==
    \A j \in DOMAIN jobs :
       wpc[j] = "done" /\ jobs[j].error \notin DatabaseErrors
       => /\ jobs[j].status = COMPLETED
          /\ Val(jobs[j].summary).errors = <<>>

\* C14: a fatal error after rows were processed leaves the rows completed
\* before it persisted. When execute returned without one error entry, every
\* row that parses was completed; if the job then fails, the product of each
\* of these rows is in the committed table.
C14_RowsCheckpointed ==
    \A j \in DOMAIN jobs :
       (/\ wpc[j] = "done"
        /\ jobs[j].status = FAILED
        /\ ~IsNone(wres[j])
        /\ Val(wres[j]).summary.errors = <<>>)
       => \A n \in DOMAIN extract_entities(file.rows) :
             extract_entities(file.rows)[n].codigo \in DOMAIN db.products

\* The rows of the file whose codigo cell is empty or blank and that have a
\* name, and the codes the other rows give.
BlankCodeRows ==
    {n \in DOMAIN file.rows :
        file.rows[n].parse /\ file.rows[n].cell # "text" /\ file.rows[n].nome # <<>>}
GivenCodes ==
    {file.rows[n].codigo :
        n \in {m \in DOMAIN file.rows : file.rows[m].parse /\ file.rows[m].cell = "text"}}

\* C19: a row with a blank code gets a code of its own: after a run without
\* error entry the table holds one product for every code given in the file
\* and one more for every blank-code row, and no blank-code row was taken for
\* an update when the codes given are all different.
C19_BlankCodeUnique ==
    (/\ DOMAIN jobs = {1}
     /\ wpc[1] = "done"
     /\ jobs[1].status = COMPLETED
     /\ Val(wres[1]).summary.errors = <<>>)
    => Cardinality(DOMAIN db.products) = Cardinality(GivenCodes) + Cardinality(BlankCodeRows)

StorageShapes == {"supabase", "assets"}

\* C18: a raw link that is a public storage URL already is never downloaded,
\* and a row whose links are all of that kind ends with exactly these links,
\* unchanged, as the image urls of its product.
C18_PublicUrlUntouched ==
    /\ fetch.pc # "idle" => fetch.url.shape \notin StorageShapes
    /\ \A e \in Range(up.events) :
          e.link.shape \in StorageShapes
          => e.act = "direct" /\ e.key = "" /\ e.url = Some(Join(UrlText(e.link)))
    /\ (run.pc = "row" /\ run.i > 1 /\ ~IsNone(hist.rowDone)) =>
         LET links == Range(run.rows[run.i - 1].image_urls)
         IN  (links # {} /\ \A u \in links : u.shape \in StorageShapes)
             => Val(hist.rowDone).resolved = {Join(UrlText(u)) : u \in links}

\* The urls of the rows of imagens_produto, and the links of the file that
\* are storage urls already, as the run stores them.
ImageUrls(cat) == {e[2] : e \in BagToSet(cat.images)}
PassedLinks ==
    {"/" \o Join(UrlText(u)) :
        u \in {v \in UNION {Range(file.rows[n].image_urls) : n \in DOMAIN file.rows} :
                 v.shape \in StorageShapes}}
FailedEvents == {n \in DOMAIN up.events : IsNone(up.events[n].url)}

C17_CacheAfterUpload ==
    /\ \A k \in DOMAIN up.cache :
          \E n \in DOMAIN up.events :
             /\ up.events[n].act = "fetch"
             /\ up.events[n].key = k
             /\ up.events[n].url = Some(up.cache[k])
    /\ \A n \in DOMAIN up.events :
          up.events[n].act = "hit"
          => \E m \in 1..(n - 1) :
                /\ up.events[m].act = "fetch"
                /\ up.events[m].key = up.events[n].key
                /\ up.events[m].url = up.events[n].url
                /\ ~IsNone(up.events[m].url)
    /\ up.pc = "fetch" => up.key \notin DOMAIN up.cache

\* Two links of one key: the first failed and left no entry, the second was
\* fetched again, uploaded, and is in the cache.
C17_Witness ==
    /\ Len(up.events) = 2
    /\ up.events[1].key = up.events[2].key
    /\ up.events[1].act = "fetch" /\ IsNone(up.events[1].url)
    /\ up.events[2].act = "fetch" /\ ~IsNone(up.events[2].url)
    /\ up.events[2].key \in DOMAIN up.cache

\* The outcomes of an attempt that are not retried: an HTTP error of another
\* status than 429/500/502/503/504, a Content-Type that is not image/..., a
\* body larger than max_bytes.
FinalOutcomes ==
    {HttpError(c) : c \in HttpErrorStatus \ RetryableStatus} \cup
    {Outcome("not_image"), Outcome("too_large")}

ReasonTag(o) ==
    CASE o.kind = "http_error" -> "http_error"
      [] o.kind \in {"timeout", "connection_error", "request_error"} -> "network_error"
      [] o.kind = "not_image" -> "not_an_image"
      [] o.kind = "too_large" -> "too_large"
      [] OTHER -> "none"

ReasonTags == {"http_error", "network_error", "not_an_image", "too_large"}

\* C21: a failed download tells its cause: what the call that just failed
\* returned differs from what a call returns that fails at its only attempt
\* for a cause with another reason tag.
C21_ReasonTold ==
    (fetch.pc = "done" /\ ReasonTag(fetch.last) \in ReasonTags)
    => \A o \in Outcomes :
          (ReasonTag(o) \in ReasonTags /\ ReasonTag(o) # ReasonTag(fetch.last))
          => Returned(FetchStep(FetchBegin(fetch.url, 1), o)) # Returned(fetch)

\* C22: the summary names every failure: when execute has returned, each
\* data row of the file that the loader could not parse, and so ends the run
\* without a product created or updated for it, has an entry of type produto
\* with its code in summary.errors.
C22_FailuresEnumerated ==
    \A j \in DOMAIN jobs :
       ~IsNone(wres[j])
       => \A n \in DOMAIN file.rows :
             ~file.rows[n].parse
             => \E e \in Range(Val(wres[j]).summary.errors) :
                   e.type = "produto" /\ e.codigo = file.rows[n].codigo

\* C23: for a cell in any accepted form _extract_image_urls returns the
\* links of the cell in their order, each once, at its first place.
C23_CellDeduplicated ==
    cellrun.pc = "done" => cellrun.urls = Dedup(cellrun.links)

\* The age of a finished job at time t, in hours.
AgeHours(job, t) == (t - Val(job.completed_at)) * HoursPerTick

\* C24: a call of cleanup_old_jobs removes terminal jobs only, each of them
\* older than max_age_hours when it is removed, and every terminal job that
\* was older than max_age_hours when the call began; it removes no pending
\* or processing job and leaves the jobs that remain as they were.
C24_SweepExact ==
    [][(sweep.pc = "wait" /\ sweep'.pc = "idle")
       => /\ DOMAIN jobs' \subseteq DOMAIN jobs
          /\ \A j \in DOMAIN jobs' : jobs'[j] = jobs[j]
          /\ \A j \in DOMAIN jobs \ DOMAIN jobs' :
                /\ jobs[j].status \in {COMPLETED, FAILED}
                /\ ~IsNone(jobs[j].completed_at)
                /\ AgeHours(jobs[j], now) > MaxAgeHours
          /\ \A j \in DOMAIN jobs' :
                ~IsNone(jobs[j].completed_at) => AgeHours(jobs[j], sweep.at) <= MaxAgeHours]_vars

\* A call has removed the old finished job 1 and left job 2, which was
\* pending or processing, in the registry.
C24_Witness ==
    /\ sweep.pc = "idle"
    /\ sweep.removed = {1}
    /\ DOMAIN jobs = {2}
    /\ jobs[2].status \in {PENDING, PROCESSING}

\* The rows of a legacy file that have a product name and a category, and
\* the names they give.
NamedRows ==
    {n \in DOMAIN file.rows :
        file.rows[n].PRODUTO \notin {" ", "NaN"} /\ file.rows[n].CATEGORIA \notin {" ", "NaN"}}
NamedProducts == {file.rows[n].PRODUTO : n \in NamedRows}

\* C25: after the run of a legacy file that completed, each row with a
\* product name and a category has its product in the catalog: the table
\* holds at least as many products as such rows name.
C25_LegacyProducts ==
    (file.kind = "legacy" /\ wpc[1] = "done" /\ jobs[1].status = COMPLETED)
    => Cardinality(DOMAIN db.products) >= Cardinality(NamedProducts)

\* C26: once a job submitted with clean_before has ended failed, every row
\* of imagens_produto in the database names a file that is in
\* assets/produtos.
C26_WipeConsistent ==
    (\E j \in DOMAIN jobs : clean[j] /\ wpc[j] = "done" /\ jobs[j].status = FAILED)
    => \A url \in {e[2] : e \in BagToSet(db.images)} :
          \E n \in DOMAIN disk : url = PublicUrl(n)

\* C27: the threads that construct JobService at the same time share one
\* registry: a job created through one reference is in the dict every
\* reference reads, and the dict and the lock in place when it was created
\* are still the ones in place, and every get_job of a created job finds it.
C27_OneRegistry ==
    \A th \in Threads :
       /\ ~IsNone(single.made[th])
          => /\ th \in single.held
             /\ Val(single.made[th]).map = single.map
             /\ Val(single.made[th]).lockid = single.lockid
       /\ ~IsNone(single.got[th]) => Val(single.got[th]).found

\* C28: after any sequence of runs no product has two image rows with the
\* same url, also when the file names of different products meet and when a
\* file is run again.
C28_NoTwinImageRows ==
    \A e \in BagToSet(db.images) : CopiesIn(e, db.images) = 1

\* C30: storing under a name that is taken overwrites: when the last run has
\* completed over a file whose row A has one link and A has its image row,
\* the file served under that url holds what was downloaded from that link.
C30_NewContentServed ==
    \A j \in DOMAIN jobs :
       /\ \A k \in DOMAIN jobs : k <= j
       /\ jobs[j].status = COMPLETED
       /\ wpc[j] = "done"
       /\ file.kind = "ok"
       /\ Len(file.rows) = 1
       /\ file.rows[1].codigo = "A"
       /\ Len(file.rows[1].image_urls) = 1
       /\ <<"A", PublicUrl(FileName("A", 1, 1))>> \in BagToSet(db.images)
       => /\ FileName("A", 1, 1) \in DOMAIN disk
          /\ Some(disk[FileName("A", 1, 1)]) = convert_drive_link(file.rows[1].image_urls[1])

\* The canonical direct-download url of a Drive file id.
DirectDownload(id) == Link("export", IdOfText(id))

\* C29: convert_drive_link and extract_drive_file_id agree on every link of
\* the sheet that is not a storage url: when a file id is extracted from the
\* link its key is drive_<id> and what is stored under the key's path was
\* downloaded from the direct-download url of that id; and whatever the key,
\* the object under its path, which a cache hit serves, was downloaded from
\* the link's own download url.
C29_KeyFixesDownload ==
    \A n \in Keyed :
       LET e == up.events[n]
           file_id == extract_drive_file_id(e.link)
       IN  /\ ~IsNone(file_id)
              => /\ e.key = "drive_" \o Val(file_id)
                 /\ e.path \in DOMAIN bucket => bucket[e.path] = DirectDownload(Val(file_id))
           /\ e.path \in DOMAIN bucket => Some(bucket[e.path]) = convert_drive_link(e.link)

\* A link with /file/d/1 after ?id=2 was served from the cache by the object
\* stored for a view link of file 1.
C29_Witness ==
    /\ Len(up.events) = 2
    /\ up.events[1].link = V1
    /\ up.events[1].act = "fetch"
    /\ up.events[2].link = M1
    /\ up.events[2].act = "hit"
    /\ up.events[2].key = up.events[1].key
    /\ bucket = ("produtos/shared/drive_1.jpg" :> DirectDownload("1"))
====
